---- MODULE Spec2Model ----
(***************************************************************************)
(* A model of miniape's edge-list engines: reorder, dropTip,               *)
(* collapseSingles, rootPhylo, unrootPhylo, isRooted and propPart.         *)
(*                                                                         *)
(* A tree is a record                                                      *)
(*   edge      sequence of rows <<parent, child>>; the empty tuple <<>>    *)
(*             stands for a row that is `undefined` in the JavaScript      *)
(*   wbl, el   whether edgeLength is present, and the lengths              *)
(*   tipLabel  the tip labels                                              *)
(*   wnl, nodeLabel  whether nodeLabel is present, and the labels          *)
(*   Nnode, rootEdge, order                                                *)
(* Numbers that are null/undefined in the JavaScript are Null, NaN is NaN. *)
(* Index vectors keep the JavaScript's 0-based values.                     *)
(***************************************************************************)
EXTENDS Integers, Sequences, FiniteSets, TLC

\* tree    the tree object the program holds: the value the last call returned,
\*         or, when it returned no tree, its input as the call left it
\* pre     that object before the last call
\* orig    the tree the run started from
\* op, args, out, aux   the last call, its arguments, its outcome and any
\*         other value it returned
\* prev    the call before the last: [op, args, out]
\* budget  the number of calls still to be made
VARIABLES tree, pre, orig, op, args, out, aux, prev, budget

vars == <<tree, pre, orig, op, args, out, aux, prev, budget>>

\* ------------------------------------------------------------------ bounds
MaxTips == 4
MaxSteps == 2
MaxTrees == 3

\* ------------------------------------------------------- JavaScript values
Null == 0 - 1
NaN == 0 - 2
UndefRow == <<>>
UndefLabel == "<undefined>"

IsNum(x) == x >= 0

\* a + b on numbers where either may be undefined or NaN
JsAdd(a, b) == IF IsNum(a) /\ IsNum(b) THEN a + b ELSE NaN

\* ------------------------------------------------------- sequence helpers
Range(s) == {s[i] : i \in DOMAIN s}

RECURSIVE SeqOfSet(_)
SeqOfSet(S) ==
  IF S = {} THEN <<>>
  ELSE LET m == CHOOSE x \in S : \A y \in S : x <= y
       IN <<m>> \o SeqOfSet(S \ {m})

\* Array.prototype.indexOf / findIndex on a match set: first 1-based position
\* of an element satisfying the test, 0 when there is none
FirstPos(s, Test(_)) ==
  IF \E i \in DOMAIN s : Test(s[i])
  THEN CHOOSE i \in DOMAIN s : Test(s[i]) /\ \A j \in 1..(i - 1) : ~Test(s[j])
  ELSE 0

\* the positions of s, ascending, whose element satisfies the test
Positions(s, Test(_)) == SeqOfSet({i \in DOMAIN s : Test(s[i])})

\* s without the element at position i (splice(i, 1))
RemoveAt(s, i) == [j \in 1..(Len(s) - 1) |-> IF j < i THEN s[j] ELSE s[j + 1]]

\* [...new Set(s)]: the distinct elements in order of first appearance
RECURSIVE Uniq(_)
Uniq(s) ==
  IF s = <<>> THEN <<>>
  ELSE LET r == Uniq(SubSeq(s, 1, Len(s) - 1))
           x == s[Len(s)]
       IN IF x \in Range(r) THEN r ELSE Append(r, x)

MaxOf(S) == CHOOSE x \in S : \A y \in S : y <= x

RECURSIVE SumSeq(_)
SumSeq(s) == IF s = <<>> THEN 0 ELSE Head(s) + SumSeq(Tail(s))

RECURSIVE Pow2(_)
Pow2(k) == IF k <= 0 THEN 1 ELSE 2 * Pow2(k - 1)

\* --------------------------------------------------------------- the tree
E1(t) == [i \in DOMAIN t.edge |-> t.edge[i][1]]
E2(t) == [i \in DOMAIN t.edge |-> t.edge[i][2]]

NTip(t) == Len(t.tipLabel)

HasUndefRow(t) == \E i \in DOMAIN t.edge : t.edge[i] = UndefRow

\* the children of node v in tree t, as a set
ChildSet(t, v) == {t.edge[i][2] : i \in {j \in DOMAIN t.edge : t.edge[j][1] = v}}

\* the nodes reachable from the root n+1 by following edges downwards
RECURSIVE ReachFrom(_, _, _)
ReachFrom(t, S, k) ==
  IF k = 0 THEN S
  ELSE ReachFrom(t, S \cup UNION {ChildSet(t, v) : v \in S}, k - 1)

\* The invariants of the data model (spec section 3)
ValidTree(t) ==
  LET n == NTip(t)
      root == n + 1
      nodes == 1..(n + t.Nnode)
  IN /\ ~HasUndefRow(t)
     /\ t.Nnode >= 1
     /\ Len(t.edge) = n + t.Nnode - 1
     /\ \A i \in DOMAIN t.edge :
           /\ t.edge[i][1] \in nodes
           /\ t.edge[i][2] \in nodes
           /\ t.edge[i][1] > n
           /\ t.edge[i][2] # root
     /\ \A v \in nodes \ {root} :
           Cardinality({i \in DOMAIN t.edge : t.edge[i][2] = v}) = 1
     /\ ReachFrom(t, {root}, Len(t.edge)) = nodes
     /\ (t.wbl => Len(t.el) = Len(t.edge))
     /\ (t.wnl => Len(t.nodeLabel) = t.Nnode)

\* ------------------------------------------------------ the input trees
TipNames == <<"A", "B", "C", "D", "E", "F", "G", "H">>
NodeNames == <<"n1", "n2", "n3", "n4", "n5", "n6", "n7", "n8">>

\* The parent maps of the valid trees with n tips and k internal nodes
ParentMaps(n, k) ==
  {par \in [((1..(n + k)) \ {n + 1}) -> ((n + 1)..(n + k))] :
     /\ \A v \in (n + 1)..(n + k) : \E c \in DOMAIN par : par[c] = v
     /\ \A v \in (n + 2)..(n + k) : par[v] # v
     /\ \A v \in (n + 2)..(n + k) : \A w \in (n + 2)..(n + k) :
           ~(v # w /\ par[v] = w /\ par[w] = v)
     /\ \A v \in (n + 2)..(n + k) : \A w \in (n + 2)..(n + k) :
           \A x \in (n + 2)..(n + k) :
             ~(v # w /\ w # x /\ v # x /\ par[v] = w /\ par[w] = x /\ par[x] = v)}

\* The edge orders a tree is given in: children ascending, children
\* descending, and grouped by parent
ChildOrders(n, k, par) ==
  LET asc == SeqOfSet((1..(n + k)) \ {n + 1})
      m == Len(asc)
      desc == [i \in 1..m |-> asc[m + 1 - i]]
      key(c) == par[c] * (n + k + 1) + c
      keys == SeqOfSet({key(c) : c \in Range(asc)})
      grouped == [i \in 1..m |-> keys[i] % (n + k + 1)]
  IN {asc, desc, grouped}

MkTree(n, k, par, ord, wbl, wnl, re) ==
  [edge |-> [i \in DOMAIN ord |-> <<par[ord[i]], ord[i]>>],
   wbl |-> wbl,
   el |-> IF wbl THEN [i \in DOMAIN ord |-> Pow2(ord[i] - 1)] ELSE <<>>,
   tipLabel |-> SubSeq(TipNames, 1, n),
   wnl |-> wnl,
   nodeLabel |-> IF wnl THEN SubSeq(NodeNames, 1, k) ELSE <<>>,
   Nnode |-> k,
   rootEdge |-> re,
   order |-> ""]

InputTrees ==
  UNION {UNION {{MkTree(n, k, par, ord, d[1], d[2], d[3]) :
                   ord \in ChildOrders(n, k, par),
                   d \in {<<FALSE, FALSE, Null>>, <<TRUE, FALSE, Null>>,
                          <<TRUE, TRUE, Null>>, <<TRUE, TRUE, 1>>}} :
                par \in ParentMaps(n, k)} :
           n \in 2..MaxTips, k \in 1..(MaxTips - 1)}

\* The valid trees with one tip: the tip below a chain of one or two internal
\* nodes (the first is the tree dropTip returns in its all-but-one case)
OneTipTrees ==
  UNION {UNION {{MkTree(1, k, par, ord, d[1], d[2], Null) :
                   ord \in ChildOrders(1, k, par),
                   d \in {<<FALSE, FALSE>>, <<TRUE, TRUE>>}} :
                par \in ParentMaps(1, k)} :
           k \in 1..2}

\* ------------------------------------------------------------- reorder
\* The 1-based positions, ascending, of the edges whose parent is v: the
\* bucket L[xi[v] .. xi[v] + xj[v] - 1] of the counting sort
Kids(t, v) == Positions(t.edge, LAMBDA r : r[1] = v)

\* The walk from the root visits no node twice and indexes xj, xi, pos with
\* valid internal-node indices only
Walkable(t) ==
  /\ ~HasUndefRow(t)
  /\ t.edge # <<>>
  /\ \A i \in DOMAIN t.edge : t.edge[i][1] > NTip(t) /\ t.edge[i][2] >= 1
  /\ \A i \in DOMAIN t.edge : t.edge[i][2] # NTip(t) + 1
  /\ \A i \in DOMAIN t.edge : \A j \in DOMAIN t.edge :
        t.edge[i][2] = t.edge[j][2] => i = j

RECURSIVE foo_reorderRcpp(_, _)
RECURSIVE FooKids(_, _)
\* a variant of FooKids that goes down into a child only after the edges to
\* the later children are written
RECURSIVE FooKidsLate(_, _)
FooKidsLate(t, ks) ==
  IF ks = <<>> THEN <<>>
  ELSE <<Head(ks) - 1>>
       \o FooKidsLate(t, Tail(ks))
       \o (IF t.edge[Head(ks)][2] > NTip(t)
           THEN FooKidsLate(t, Kids(t, t.edge[Head(ks)][2])) ELSE <<>>)

FooKids(t, ks) ==
  IF ks = <<>> THEN <<>>
  ELSE LET k == Head(ks)
       IN <<k - 1>>
          \o (IF t.edge[k][2] > NTip(t) THEN foo_reorderRcpp(t, t.edge[k][2]) ELSE <<>>)
          \o FooKids(t, Tail(ks))

foo_reorderRcpp(t, node) == FooKids(t, Kids(t, node))

\* what bar_reorderRcpp stores for the edge at 0-based index k
BarEntry(k) == k + 1

RECURSIVE bar_reorderRcpp(_, _)
RECURSIVE BarKids(_, _)
BarKids(t, ks) ==
  IF ks = <<>> THEN <<>>
  ELSE LET k == Head(ks)
       IN BarKids(t, Tail(ks))
          \o (IF t.edge[k][2] > NTip(t) THEN bar_reorderRcpp(t, t.edge[k][2]) ELSE <<>>)

bar_reorderRcpp(t, node) ==
  LET ks == Kids(t, node)
  IN BarKids(t, ks) \o [i \in DOMAIN ks |-> BarEntry(ks[i] - 1)]

Zeros(k) == [i \in 1..k |-> 0]

\* neworder: filled from the front (cladewise) or from the tail (postorder);
\* the slots never written keep their initial 0
reorderRcpp(t, io) ==
  LET n == Len(t.edge)
      root == NTip(t) + 1
  IN IF io = 1
     THEN LET w == foo_reorderRcpp(t, root)
          IN IF Len(w) >= n THEN w ELSE w \o Zeros(n - Len(w))
     ELSE LET w == bar_reorderRcpp(t, root)
          IN IF Len(w) >= n THEN w ELSE Zeros(n - Len(w)) \o w

IdentityOrder(t) == [i \in 1..Len(t.edge) |-> i - 1]

\* neworder.map(idx => a[idx]) with undef for an index outside the array
PickAll(a, neworder, undef) ==
  [i \in DOMAIN neworder |->
     IF neworder[i] + 1 \in DOMAIN a THEN a[neworder[i] + 1] ELSE undef]

\* the order codes the other way round: what reorder would pass on if it took
\* the code of the other target
OrderCodeSwapped(order) == IF order = "cladewise" THEN 2 ELSE 1

OrderCode(order) == IF order = "cladewise" THEN 1 ELSE 2

\* Outcomes of an operation: what it returned or threw (out), the object it
\* returned or, after a throw, the input object as the call left it (tree),
\* and any other value returned (aux)
Outcome(o, t, a) == [out |-> o, tree |-> t, aux |-> a]

_reorder_ape(t, order) ==
  IF t.order = order THEN Outcome("tree", t, IdentityOrder(t))
  ELSE IF t.Nnode = 1 THEN Outcome("tree", t, IdentityOrder(t))
  ELSE IF HasUndefRow(t) THEN Outcome("TypeError", t, <<>>)
  ELSE IF ~Walkable(t) THEN Outcome("unmodelled", t, <<>>)
  ELSE LET neworder == reorderRcpp(t, OrderCode(order))
       IN Outcome("tree",
                  [t EXCEPT !.edge = PickAll(t.edge, neworder, UndefRow),
                            !.el = IF t.wbl THEN PickAll(t.el, neworder, Null) ELSE <<>>,
                            !.order = order],
                  neworder)

\* reorder(tree, order): aux is the index vector reorder(tree, order, true)
\* returns for the same input
reorder(t, order) ==
  IF NTip(t) < 2 THEN Outcome("tree", t, <<>>) ELSE _reorder_ape(t, order)

\* ----------------------------------------------------- collapseSingles
\* tabulate(arr)[i]: the number of occurrences of i, undefined (Null) for an
\* i above the largest element.  tabulate throws a RangeError on an empty
\* array (Math.max() is -Infinity).
TabAt(arr, i) ==
  IF arr = <<>> \/ i < 0 \/ i > MaxOf(Range(arr)) THEN Null
  ELSE Cardinality({j \in DOMAIN arr : arr[j] = i})

\* the single-child threshold of the fast path: a count at or below it sends
\* the tree down the slow path
SingleCount == 1

\* for (i = n + 1; i < tab.length; i++) if (tab[i] <= 1) ...
AllInternalMultiple(e1, n) ==
  \A i \in (n + 1)..MaxOf(Range(e1)) : TabAt(e1, i) > SingleCount

\* The basal loop: the state is <<ROOT, e1, e2, el, ROOTEDGE, thrown>>
RECURSIVE StripBasal(_, _, _, _, _, _, _)
StripBasal(ROOT, e1, e2, el, wbl, keep, ROOTEDGE) ==
  IF e1 = <<>> THEN [thrown |-> TRUE, ROOT |-> ROOT, e1 |-> e1, e2 |-> e2,
                     el |-> el, ROOTEDGE |-> ROOTEDGE]
  ELSE IF TabAt(e1, ROOT) = 1
  THEN LET i == FirstPos(e1, LAMBDA x : x = ROOT)
       IN StripBasal(e2[i], RemoveAt(e1, i), RemoveAt(e2, i),
                     IF wbl THEN RemoveAt(el, i) ELSE el, wbl, keep,
                     IF wbl /\ keep THEN JsAdd(ROOTEDGE, el[i]) ELSE ROOTEDGE)
  ELSE [thrown |-> FALSE, ROOT |-> ROOT, e1 |-> e1, e2 |-> e2, el |-> el,
        ROOTEDGE |-> ROOTEDGE]

\* sort((a, b) => b - a) of a sequence of distinct positions
RECURSIVE SeqOfSetDesc(_)
SeqOfSetDesc(S) ==
  IF S = {} THEN <<>>
  ELSE LET m == MaxOf(S) IN <<m>> \o SeqOfSetDesc(S \ {m})

\* for (k ...) { e2[jj[k]] = e2[ii[k]]; el[jj[k]] += el[ii[k]] }, jj[k] = 0
\* standing for the -1 of a parent edge that was not found
RECURSIVE SpliceLoop(_, _, _, _, _, _)
SpliceLoop(e2, el, wbl, ii, jj, k) ==
  IF k > Len(ii) THEN [e2 |-> e2, el |-> el]
  ELSE IF jj[k] = 0 THEN SpliceLoop(e2, el, wbl, ii, jj, k + 1)
  ELSE SpliceLoop([e2 EXCEPT ![jj[k]] = e2[ii[k]]],
                  IF wbl THEN [el EXCEPT ![jj[k]] = JsAdd(el[jj[k]], el[ii[k]])] ELSE el,
                  wbl, ii, jj, k + 1)

\* s without the positions of the set D
DropPositions(s, D) ==
  LET keepPos == SeqOfSet(DOMAIN s \ D)
  IN [i \in DOMAIN keepPos |-> s[keepPos[i]]]

\* the label at 0-based index i of a label array
LabelAt(labels, i) ==
  IF i + 1 \in DOMAIN labels THEN labels[i + 1] ELSE UndefLabel

\* the position of x in the ascending sequence s, 0 when absent
PosIn(s, x) == FirstPos(s, LAMBDA y : y = x)

\* newNb[v - 1] after the root and the sorted internal children are numbered
NewNumber(internalNodes, ROOT, n, Nnode, maxOld, v) ==
  LET p == PosIn(internalNodes, v)
  IN IF p > 0 THEN (IF n + 1 + p <= n + Nnode THEN n + 1 + p ELSE Null)
     ELSE IF v = ROOT THEN n + 1
     ELSE IF v >= 1 /\ v <= maxOld THEN 0
     ELSE Null

\* "Update number of internal nodes" to the end: labels by first appearance
\* in e1, numbers by ascending old number, the edge matrix rebuilt
CollapseRenumber(t, n, keep, ROOT, ROOTEDGE, e1, e2, el, oldnodes, internalNodes) ==
  LET labelled == [t EXCEPT !.nodeLabel =
                     IF t.wnl
                     THEN [i \in DOMAIN oldnodes |->
                             LabelAt(t.nodeLabel, oldnodes[i] - n - 1)]
                     ELSE <<>>]
  IN IF e1 = <<>> THEN Outcome("RangeError", labelled, <<>>)
     ELSE Outcome("tree",
                  [labelled EXCEPT
                     !.edge = [i \in DOMAIN e1 |->
                                 <<NewNumber(internalNodes, ROOT, n, Len(e1) - n + 1,
                                             MaxOf(Range(e1)), e1[i]),
                                   IF e2[i] > n
                                   THEN NewNumber(internalNodes, ROOT, n, Len(e1) - n + 1,
                                                  MaxOf(Range(e1)), e2[i])
                                   ELSE e2[i]>>],
                     !.Nnode = Len(e1) - n + 1,
                     !.rootEdge = IF keep THEN ROOTEDGE ELSE t.rootEdge,
                     !.el = el],
                  <<>>)

\* the edges at the positions ii removed from the columns
CollapseRemove(t, n, keep, b, ii, m) ==
  CollapseRenumber(t, n, keep, b.ROOT, b.ROOTEDGE,
                   DropPositions(b.e1, Range(ii)),
                   DropPositions(m.e2, Range(ii)),
                   IF t.wbl THEN DropPositions(m.el, Range(ii)) ELSE <<>>,
                   Uniq(DropPositions(b.e1, Range(ii))),
                   SeqOfSet({x \in Range(DropPositions(m.e2, Range(ii))) : x > n}))

\* every singleton's edge merged into the edge that leads to it
CollapseMerge(t, n, keep, b, ii) ==
  CollapseRemove(t, n, keep, b, ii,
                 SpliceLoop(b.e2, b.el, t.wbl, ii,
                            [k \in DOMAIN ii |-> PosIn(b.e2, b.e1[ii[k]])], 1))

\* after the basal loop: the singletons, by descending first position in e1
CollapseSlow(t, n, keep, b) ==
  IF b.thrown THEN Outcome("RangeError", t, <<>>)
  ELSE CollapseMerge(t, n, keep, b,
         SeqOfSetDesc({PosIn(b.e1, sg) :
                         sg \in {i \in (n + 1)..MaxOf(Range(b.e1)) : TabAt(b.e1, i) = 1}}))

\* collapseSingles after its reorder
CollapseReordered(r, n, rootEdge0) ==
  IF r.out # "tree" THEN r
  ELSE IF HasUndefRow(r.tree) THEN Outcome("TypeError", r.tree, <<>>)
  ELSE IF r.tree.edge = <<>> THEN Outcome("RangeError", r.tree, <<>>)
  ELSE IF ~Walkable(r.tree) THEN Outcome("unmodelled", r.tree, <<>>)
  ELSE IF AllInternalMultiple(E1(r.tree), n) THEN Outcome("tree", r.tree, <<>>)
  ELSE CollapseSlow(r.tree, n, rootEdge0 /\ r.tree.wbl,
                    StripBasal(n + 1, E1(r.tree), E2(r.tree), r.tree.el, r.tree.wbl,
                               rootEdge0 /\ r.tree.wbl, 0))

collapseSingles(tree0, rootEdge0) ==
  IF NTip(tree0) = 0 THEN Outcome("tree", tree0, <<>>)
  ELSE CollapseReordered(reorder(tree0, "cladewise"), NTip(tree0), rootEdge0)

\* ------------------------------------------------ isRooted, unrootPhylo
\* isRooted(phy, ntips); callers that pass no ntips are modelled with
\* ntips = Null, for which parentCounts[NaN] is never set
isRooted(t, ntips) ==
  IF t.rootEdge # Null THEN TRUE
  ELSE IF ntips = Null THEN TRUE
  ELSE Cardinality({i \in DOMAIN t.edge : t.edge[i][1] = ntips + 1}) <= 2

\* every occurrence of node a in the edge matrix replaced by node b
RenameNode(edge, a, b) ==
  [i \in DOMAIN edge |->
     <<IF edge[i][1] = a THEN b ELSE edge[i][1],
       IF edge[i][2] = a THEN b ELSE edge[i][2]>>]

\* every node number above v moved by d
ShiftAbove(edge, v, d) ==
  [i \in DOMAIN edge |->
     <<IF edge[i][1] > v THEN edge[i][1] + d ELSE edge[i][1],
       IF edge[i][2] > v THEN edge[i][2] + d ELSE edge[i][2]>>]

\* the degree of node v: its occurrences in either column
Degree(t, v) ==
  Cardinality({i \in DOMAIN t.edge : t.edge[i][1] = v})
  + Cardinality({i \in DOMAIN t.edge : t.edge[i][2] = v})

\* a.splice(i, 1) for a 0-based i that may be negative (counted from the end)
\* or outside the array
JsSplice1(a, i) ==
  LET start == IF i < 0 THEN (IF Len(a) + i < 0 THEN 0 ELSE Len(a) + i) ELSE i
  IN IF start + 1 \in DOMAIN a THEN RemoveAt(a, start + 1) ELSE a

\* The index that receives the removed root edge's length: EDGEROOT[1],
\* moved down by one when the removed edge precedes it
OtherIndex(idxToRemove, idxOther) ==
  IF idxOther # Null /\ idxToRemove < idxOther THEN idxOther - 1 ELSE idxOther

\* Step 1 of unrootPhylo, up to the choice of the order branch: the tree
\* with the root edge materialised (keepRootEdge) or the basal root spliced
UnrootPrepare(t, n, keepRootEdge, basal) ==
  IF keepRootEdge
  THEN [t EXCEPT !.edge = Append(ShiftAbove(t.edge, n, 1), <<n + 2, n + 1>>),
                 !.el = IF t.wbl THEN Append(t.el, t.rootEdge) ELSE t.el,
                 !.rootEdge = Null,
                 !.tipLabel = Append(t.tipLabel, "[ROOT]")]
  ELSE IF basal
  THEN LET i == FirstPos(t.edge, LAMBDA r : r[1] = n + 1)
           NEWROOT == t.edge[i][2]
           renamed == RenameNode(t.edge, NEWROOT, n + 2)
           newlab == IF t.wnl /\ t.nodeLabel # <<>> THEN Head(t.nodeLabel) ELSE "[ROOT]"
       IN [t EXCEPT !.edge = [renamed EXCEPT ![i] = <<n + 2, n + 1>>],
                    !.nodeLabel = IF t.wnl /\ t.nodeLabel # <<>>
                                  THEN Tail(t.nodeLabel) ELSE t.nodeLabel,
                    !.tipLabel = Append(t.tipLabel, newlab),
                    !.Nnode = t.Nnode - 1]
  ELSE t

\* EDGEROOT (0-based indices) and NEWROOT for the tree p, whose tip count is
\* n, root is ROOT and whose edge count on entry was N
EdgeRoot(p, ophy, n, ROOT, N) ==
  IF ophy # "cladewise"
  THEN LET NEWROOT == p.edge[N - 1][1]
       IN [NEWROOT |-> NEWROOT,
           EDGEROOT |-> IF p.edge[N][2] # NEWROOT THEN <<N - 2, N - 1>>
                        ELSE <<N - 1, N - 2>>]
  ELSE LET cand == Positions(p.edge, LAMBDA r : r[1] = ROOT)
           c0 == [i \in DOMAIN cand |-> cand[i] - 1]
           rev == [i \in DOMAIN c0 |-> c0[Len(c0) + 1 - i]]
           er == IF p.edge[c0[1] + 1][2] <= n THEN rev ELSE c0
       IN [NEWROOT |-> p.edge[er[1] + 1][2], EDGEROOT |-> er]

\* the root edge removed, its length added at idxOther, NEWROOT renamed to
\* ROOT, the numbers above it closed up, the labels rotated
UnrootFinish(p, n, NEWROOT, idxToRemove, idxOther) ==
  Outcome("tree",
          [p EXCEPT
             !.edge = ShiftAbove(RenameNode(RemoveAt(p.edge, idxToRemove + 1),
                                            NEWROOT, n + 1),
                                 NEWROOT, 0 - 1),
             !.el = IF p.wbl
                    THEN RemoveAt(IF idxOther # Null /\ idxOther + 1 \in DOMAIN p.el
                                  THEN [p.el EXCEPT ![idxOther + 1] =
                                          JsAdd(p.el[idxOther + 1], p.el[idxToRemove + 1])]
                                  ELSE p.el,
                                  idxToRemove + 1)
                    ELSE p.el,
             !.Nnode = p.Nnode - 1,
             !.nodeLabel =
               IF ~p.wnl THEN p.nodeLabel
               ELSE IF NEWROOT = n + 2
               THEN (IF p.nodeLabel = <<>> THEN <<>> ELSE Tail(p.nodeLabel))
               ELSE <<LabelAt(p.nodeLabel, NEWROOT - n - 1)>>
                    \o JsSplice1(JsSplice1(p.nodeLabel, 0), NEWROOT - n - 2)],
          <<>>)

UnrootJoin(p, n, er) ==
  UnrootFinish(p, n, er.NEWROOT, er.EDGEROOT[1],
               OtherIndex(er.EDGEROOT[1],
                          IF Len(er.EDGEROOT) >= 2 THEN er.EDGEROOT[2] ELSE Null))

\* after the reorder: the choice of EDGEROOT
UnrootSplit(r, n, N) ==
  IF r.out # "tree" THEN r
  ELSE IF r.tree.order = "cladewise"
          /\ ~\E i \in DOMAIN r.tree.edge : r.tree.edge[i][1] = n + 1
  THEN Outcome("TypeError", r.tree, <<>>)
  ELSE UnrootJoin(r.tree, n, EdgeRoot(r.tree, r.tree.order, n, n + 1, N))

\* let ophy = phy.order; if (!ophy || ...) phy = reorder(phy, "cladewise")
UnrootOrder(t2, n, N) ==
  UnrootSplit(IF t2.order # "cladewise" /\ t2.order # "postorder"
              THEN reorder(t2, "cladewise") ELSE Outcome("tree", t2, <<>>),
              n, N)

UnrootBasal(t1, n0, N0, keepRootEdge, basal) ==
  UnrootOrder(UnrootPrepare(t1, n0, keepRootEdge, basal),
              IF keepRootEdge \/ basal THEN n0 + 1 ELSE n0,
              IF keepRootEdge THEN N0 + 1 ELSE N0)

UnrootRooted(t1, n0, N0, Nnode0, keepRootEdge) ==
  IF ~isRooted(t1, n0) THEN Outcome("tree", t1, <<>>)
  ELSE UnrootBasal(t1, n0, N0, keepRootEdge,
                   ~keepRootEdge /\ Nnode0 >= 1 /\ Degree(t1, n0 + 1) = 1)

\* unrootPhylo(phy, n, collapseSinglesFlag, keepRootEdge) called with n the
\* number of tips of phy
unrootPhylo(t0, collapseSinglesFlag, keepRootEdge0) ==
  IF collapseSinglesFlag THEN Outcome("Error", t0, <<>>)
  ELSE IF Len(t0.edge) < 3 THEN Outcome("DegenerateTreeError", t0, <<>>)
  ELSE IF HasUndefRow(t0) THEN Outcome("TypeError", t0, <<>>)
  ELSE IF ~Walkable(t0) THEN Outcome("unmodelled", t0, <<>>)
  ELSE IF \A v \in 1..(NTip(t0) + t0.Nnode) : Degree(t0, v) < 3
  THEN Outcome("ConstantDegreeError", t0, <<>>)
  ELSE UnrootRooted(IF keepRootEdge0 /\ t0.rootEdge # Null THEN t0
                    ELSE [t0 EXCEPT !.rootEdge = Null],
                    NTip(t0), Len(t0.edge), t0.Nnode,
                    keepRootEdge0 /\ t0.rootEdge # Null)

\* ------------------------------------------------------------ propPart
\* arrayEquals on sorted id lists
arrayEquals(a, b) == a = b

\* bipartition2 reads every row, indexes `out` by parent - nTips - 1 and by
\* child - nTips - 1, and walks the edges front to back
BipartitionReadable(edge, nTips) ==
  /\ edge # <<>>
  /\ \A i \in DOMAIN edge : edge[i] # UndefRow
  /\ \A i \in DOMAIN edge : edge[i][1] > nTips
  /\ LET m == MaxOf({edge[i][1] : i \in DOMAIN edge})
     IN \A i \in DOMAIN edge : edge[i][2] <= m /\ edge[i][2] >= 1

\* out after the edges 1..k have been swept: a function from internal node
\* to the tips gathered so far
RECURSIVE Sweep(_, _, _)
Sweep(edge, nTips, k) ==
  IF k = 0
  THEN [v \in (nTips + 1)..MaxOf({edge[i][1] : i \in DOMAIN edge}) |-> {}]
  ELSE LET o == Sweep(edge, nTips, k - 1)
           p == edge[k][1]
           c == edge[k][2]
       IN [o EXCEPT ![p] = IF c > nTips THEN o[p] \cup o[c] ELSE o[p] \cup {c}]

\* bipartition2(orig, nTips): one ascending tip list per internal node,
\* out[i] for node nTips + 1 + i
bipartition2(edge, nTips) ==
  LET o == Sweep(edge, nTips, Len(edge))
      m == MaxOf({edge[i][1] : i \in DOMAIN edge})
  IN [i \in 1..(m - nTips) |-> SeqOfSet(o[nTips + i])]

\* The registry after the partitions bp[i..] of one more tree are matched
RECURSIVE MatchTree(_, _, _, _)
MatchTree(ans, no, bp, i) ==
  IF i > Len(bp) THEN [ans |-> ans, no |-> no]
  ELSE LET hits == {j \in 2..Len(ans) : arrayEquals(bp[i], ans[j])}
       IN IF hits # {}
          THEN LET j == CHOOSE x \in hits : \A y \in hits : x <= y
               IN MatchTree(ans, [no EXCEPT ![j] = no[j] + 1], bp, i + 1)
          ELSE MatchTree(Append(ans, bp[i]), Append(no, 1), bp, i + 1)

\* the count the first partition is seeded with
SeedCount(nbtree) == nbtree

RECURSIVE propPart2From(_, _, _, _, _)
propPart2From(trees, nTips, ans, no, k) ==
  IF k > Len(trees) THEN [ans |-> ans, no |-> no]
  ELSE LET r == MatchTree(ans, no, bipartition2(trees[k].edge, nTips), 2)
       IN propPart2From(trees, nTips, r.ans, r.no, k + 1)

propPart2Seeded(trees, nTips, ans) ==
  propPart2From(trees, nTips, ans,
                [i \in DOMAIN ans |-> IF i = 1 THEN SeedCount(Len(trees)) ELSE 1], 2)

propPart2(trees, nTips) ==
  propPart2Seeded(trees, nTips, bipartition2(trees[1].edge, nTips))

\* the registry as the outcome of propPart
Registry(first, r) ==
  Outcome("registry", first, [partitions |-> r.ans, number |-> r.no])

\* propPart after every tree went through reorder(t, "postorder")
PropPartReordered(rs) ==
  IF \E i \in DOMAIN rs : rs[i].out # "tree"
  THEN Outcome(rs[CHOOSE x \in DOMAIN rs :
                    rs[x].out # "tree" /\ \A y \in 1..(x - 1) : rs[y].out = "tree"].out,
               rs[1].tree, <<>>)
  ELSE IF \E i \in DOMAIN rs : HasUndefRow(rs[i].tree)
  THEN Outcome("TypeError", rs[1].tree, <<>>)
  ELSE IF \E i \in DOMAIN rs : ~BipartitionReadable(rs[i].tree.edge, NTip(rs[1].tree))
  THEN Outcome("unmodelled", rs[1].tree, <<>>)
  ELSE Registry(rs[1].tree,
                propPart2([i \in DOMAIN rs |-> rs[i].tree], NTip(rs[1].tree)))

\* propPart(tre): every tree is first reordered in place; out is
\* "registry" with aux = [partitions, number], or what was thrown.  tree is
\* the first tree of the list as the call left it.
propPart(trees0) ==
  PropPartReordered([i \in DOMAIN trees0 |-> reorder(trees0[i], "postorder")])

\* ------------------------------------------------------------ rootPhylo
\* a[i] = v for a 0-based i; writing past the end leaves holes (Null)
ArrWrite(a, i, v) ==
  IF i < 0 THEN a
  ELSE IF i + 1 <= Len(a) THEN [a EXCEPT ![i + 1] = v]
  ELSE a \o [j \in 1..(i - Len(a)) |-> Null] \o <<v>>

\* a[i] for a 0-based i, undefined (Null) outside the array
ArrRead(a, i) == IF i + 1 \in DOMAIN a THEN a[i + 1] ELSE Null

\* newNb: zeros, the new root set to n + 1, then the internal children in
\* ascending order of their old number set to n + 2, n + 3, ...
RECURSIVE NumberNodes(_, _, _, _)
NumberNodes(newNb, nodes, k, n) ==
  IF k > Len(nodes) THEN newNb
  ELSE NumberNodes(ArrWrite(newNb, nodes[k] - 1, n + 1 + k), nodes, k + 1, n)

RootFirstNumbering(edge, n, total, newroot) ==
  LET nodes == SeqOfSet({edge[i][2] : i \in {j \in DOMAIN edge : edge[j][2] > n}})
  IN NumberNodes(ArrWrite(Zeros(total), newroot - 1, n + 1), nodes, 1, n)

\* children above n first, then every parent, looked up in newNb
Renumber(edge, n, newNb) ==
  [i \in DOMAIN edge |->
     <<ArrRead(newNb, edge[i][1] - 1),
       IF edge[i][2] > n THEN ArrRead(newNb, edge[i][2] - 1) ELSE edge[i][2]>>]

\* The walk from the new root's edge towards the old root: the state is the
\* inverted flags, the current node and the index (0-based) it stops at.
RECURSIVE PathUp(_, _, _, _, _, _)
PathUp(e1, e2, ROOT, INV, nod, i) ==
  IF i < 0 THEN [INV |-> INV, i |-> i]
  ELSE IF e2[i + 1] = nod
  THEN (IF e1[i + 1] = ROOT THEN [INV |-> INV, i |-> i]
        ELSE PathUp(e1, e2, ROOT, INV \cup {i}, e1[i + 1], i - 1))
  ELSE PathUp(e1, e2, ROOT, INV, nod, i - 1)

\* the label moves of edgelabel = true, edge by edge in index order
RECURSIVE TransferLabels(_, _, _, _, _, _)
TransferLabels(labels, e1, e2, INV, n, i) ==
  IF i >= Len(e1) THEN labels
  ELSE IF i \in INV /\ LabelAt(labels, e2[i + 1] - n - 1) # UndefLabel
  THEN TransferLabels(
         IF e1[i + 1] - n - 1 >= 0 /\ e1[i + 1] - n <= Len(labels)
         THEN [labels EXCEPT ![e1[i + 1] - n] = labels[e2[i + 1] - n]]
         ELSE labels,
         e1, e2, INV, n, i + 1)
  ELSE TransferLabels(labels, e1, e2, INV, n, i + 1)

\* parent and child of the rows of INV exchanged
SwapRows(edge, INV) ==
  [i \in DOMAIN edge |->
     IF (i - 1) \in INV THEN <<edge[i][2], edge[i][1]>> ELSE edge[i]]

\* the 0-based positions of newNbSub, stably sorted by value
RECURSIVE StableOrder(_, _)
StableOrder(vals, left) ==
  IF left = {} THEN <<>>
  ELSE LET i == CHOOSE x \in left :
                  \A y \in left : vals[x] < vals[y] \/ (vals[x] = vals[y] /\ x <= y)
       IN <<i>> \o StableOrder(vals, left \ {i})

\* the final cladewise reorder, once the order tag is deleted
RootReorder(t1, holes) ==
  IF holes THEN Outcome("unmodelled", t1, <<>>) ELSE reorder(t1, "cladewise")

\* the node labels in the order of the new numbers, "Root" first and the
\* missing ones filled when the root was resolved
RootRelabel(t, n, resolveRoot, newNb, newNbSub, lab1) ==
  RootReorder(
    [t EXCEPT !.edge = Renumber(t.edge, n, newNb),
              !.nodeLabel =
                IF ~t.wnl THEN t.nodeLabel
                ELSE IF resolveRoot /\ lab1 # <<>>
                THEN [i \in DOMAIN lab1 |->
                        IF i = 1 THEN "Root"
                        ELSE IF lab1[i] = UndefLabel THEN lab1[1] ELSE lab1[i]]
                ELSE IF resolveRoot THEN <<"Root">>
                ELSE lab1,
              !.order = ""],
    t.wnl /\ \E i \in DOMAIN newNbSub : newNbSub[i] = Null)

RootSorted(t, n, resolveRoot, newNb, newNbSub, lab0, ord) ==
  RootRelabel(t, n, resolveRoot, newNb, newNbSub,
              [i \in DOMAIN ord |-> LabelAt(lab0, ord[i] - 1)])

\* newNbSub = newNb.slice(n), shifted with nodeLabel when the root was fused
RootLabels(t, n, fuseRoot, resolveRoot, newNb, sub0) ==
  RootSorted(t, n, resolveRoot, newNb,
             IF sub0 # <<>> /\ fuseRoot THEN Tail(sub0) ELSE sub0,
             IF sub0 # <<>> /\ fuseRoot /\ t.nodeLabel # <<>>
             THEN Tail(t.nodeLabel) ELSE t.nodeLabel,
             StableOrder(IF sub0 # <<>> /\ fuseRoot THEN Tail(sub0) ELSE sub0,
                         DOMAIN (IF sub0 # <<>> /\ fuseRoot THEN Tail(sub0) ELSE sub0)))

RootNumbered(t, n, fuseRoot, resolveRoot, newNb) ==
  RootLabels(t, n, fuseRoot, resolveRoot, newNb,
             IF Len(newNb) > n THEN SubSeq(newNb, n + 1, Len(newNb)) ELSE <<>>)

\* The last part of rootPhylo: renumbering root first, the node labels, and
\* the final cladewise reorder.  t is the tree as rewritten so far.
RootFinish(t, n, newroot, fuseRoot, resolveRoot) ==
  RootNumbered(t, n, fuseRoot, resolveRoot,
               RootFirstNumbering(t.edge, n, n + t.Nnode, newroot))

\* for (i = 1; i < Nnode; i++): the first clade equal to the ingroup or to the
\* outgroup decides newroot; 0 when there is none, Null for an undefined
\* e1[idx], and "TypeError" when pp[i] does not exist
RECURSIVE FindClade(_, _, _, _, _, _, _, _)
FindClade(pp, ingroup, outgroup, e1, e2, n, Nnode, i) ==
  IF i >= Nnode THEN 0
  ELSE IF i + 1 > Len(pp) THEN NaN
  ELSE IF arrayEquals(pp[i + 1], ingroup)
  THEN LET idx == PosIn(e2, i + n) IN IF idx = 0 THEN Null ELSE e1[idx]
  ELSE IF arrayEquals(pp[i + 1], outgroup) THEN i + n
  ELSE FindClade(pp, ingroup, outgroup, e1, e2, n, Nnode, i + 1)

\* newroot === ROOT with resolveRoot: a root of more than two children gets a
\* new node that takes every root edge but the outgroup's
ResolveAtRoot(t, e1, e2, n, og) ==
  LET ROOT == n + 1
      k == {i \in DOMAIN e1 : e1[i] = ROOT}
      i_index == PosIn(e2, og)
      newnod == t.Nnode + n + 1
  IN IF Cardinality(k) > 2
     THEN [t EXCEPT !.edge = <<<<ROOT, newnod>>>>
                              \o [i \in DOMAIN t.edge |->
                                    IF i \in k /\ i # i_index
                                    THEN <<newnod, t.edge[i][2]>> ELSE t.edge[i]],
                    !.el = IF t.wbl THEN <<0>> \o t.el ELSE t.el,
                    !.Nnode = t.Nnode + 1]
     ELSE t

\* resolveRoot after a reroot with a one-tip outgroup: the rows of newroot
\* other than the outgroup's move to the new node; the outgroup's row goes last
ResolveAfterReroot(t, n, newroot, og, oldNnode) ==
  LET newnod == oldNnode + n + 1
      wh == {i \in DOMAIN t.edge : t.edge[i][2] = og}
      moved == [i \in DOMAIN t.edge |->
                  IF t.edge[i][1] = newroot /\ i \notin wh
                  THEN <<newnod, t.edge[i][2]>> ELSE t.edge[i]]
      o == SeqOfSet(DOMAIN t.edge \ wh) \o SeqOfSet(wh)
  IN [t EXCEPT !.edge = <<<<newroot, newnod>>>> \o [i \in DOMAIN o |-> moved[o[i]]],
               !.el = IF t.wbl THEN <<0>> \o [i \in DOMAIN o |-> t.el[o[i]]] ELSE t.el,
               !.Nnode = t.Nnode + 1]

\* resolveRoot after the rows are rewritten
RerootResolve(tB, n, newroot, og, fuseRoot, resolveRoot, N, oldNnode) ==
  IF ~resolveRoot THEN RootFinish(tB, n, newroot, fuseRoot, FALSE)
  ELSE IF og = Null THEN Outcome("TypeError", tB, <<>>)
  ELSE IF Len(tB.edge) < N THEN Outcome("TypeError", tB, <<>>)
  ELSE RootFinish(ResolveAfterReroot(tB, n, newroot, og, oldNnode), n, newroot,
                  fuseRoot, TRUE)

\* the fused root edge handed to k_idx, the labels transferred, the rows of
\* INV inverted and the root edge spliced out
RerootRows(tA, e1, e2, n, newroot, og, fuseRoot, resolveRoot, edgelabel, INV, i_idx, k_idx) ==
  IF fuseRoot /\ i_idx < 0 THEN Outcome("TypeError", tA, <<>>)
  ELSE
  LET edgeF == IF fuseRoot
               THEN [tA.edge EXCEPT ![k_idx + 1] = <<tA.edge[i_idx + 1][2], @[2]>>]
               ELSE tA.edge
      elF == IF fuseRoot /\ tA.wbl
             THEN [tA.el EXCEPT ![k_idx + 1] = JsAdd(@, tA.el[i_idx + 1])]
             ELSE tA.el
      labT == IF edgelabel /\ tA.wnl
              THEN LET l == TransferLabels(tA.nodeLabel, e1, e2, INV, n, 0)
                   IN IF LabelAt(l, newroot - n - 1) # UndefLabel
                      THEN [l EXCEPT ![newroot - n] = ""] ELSE l
              ELSE tA.nodeLabel
      edgeS == SwapRows(edgeF, INV)
  IN RerootResolve(
       [tA EXCEPT !.edge = IF fuseRoot THEN RemoveAt(edgeS, i_idx + 1) ELSE edgeS,
                  !.el = IF fuseRoot /\ tA.wbl THEN RemoveAt(elF, i_idx + 1) ELSE elF,
                  !.nodeLabel = labT,
                  !.Nnode = IF fuseRoot THEN tA.Nnode - 1 ELSE tA.Nnode],
       n, newroot, og, fuseRoot, resolveRoot, Len(tA.edge), tA.Nnode)

RerootWalked(t, e1, e2, n, newroot, og, fuseRoot, resolveRoot, edgelabel, up, w0, k) ==
  RerootRows([t EXCEPT !.rootEdge = Null], e1, e2, n, newroot, og, fuseRoot,
             resolveRoot, edgelabel,
             IF ~fuseRoot /\ up.i >= 0 THEN up.INV \cup {up.i} ELSE up.INV,
             up.i,
             IF Len(k) >= 2 /\ k[2] - 1 > w0 THEN k[2] - 1 ELSE k[1] - 1)

RerootFrom(t, e1, e2, n, newroot, og, fuseRoot, resolveRoot, edgelabel, w) ==
  RerootWalked(t, e1, e2, n, newroot, og, fuseRoot, resolveRoot, edgelabel,
               IF e1[w[1]] # n + 1
               THEN PathUp(e1, e2, n + 1, {w[i] - 1 : i \in DOMAIN w}, e1[w[1]],
                           w[1] - 2)
               ELSE [INV |-> {}, i |-> w[1] - 1],
               w[1] - 1,
               Positions(e1, LAMBDA x : x = n + 1))

\* The reroot proper (newroot # ROOT): e1, e2 are the columns read before
\* propPart ran, t is the tree object as it is now
Reroot(t, e1, e2, n, newroot, og, fuseRoot, resolveRoot, edgelabel) ==
  RerootFrom(t, e1, e2, n, newroot, og, fuseRoot, resolveRoot, edgelabel,
             Positions(e2, LAMBDA x : x = newroot))

\* the multi-tip outgroup, after propPart
RootClade(tp, e1, e2, n, fuseRoot, edgelabel, newroot) ==
  IF newroot = NaN THEN Outcome("TypeError", tp, <<>>)
  ELSE IF newroot = 0 \/ newroot = Null THEN Outcome("MonophylyError", tp, <<>>)
  ELSE IF newroot = n + 1 THEN Outcome("tree", tp, <<>>)
  ELSE IF PosIn(e2, newroot) = 0 THEN Outcome("unmodelled", tp, <<>>)
  ELSE Reroot(tp, e1, e2, n, newroot, Null, fuseRoot, FALSE, edgelabel)

RootMulti(pr, e1, e2, n, fuseRoot, edgelabel, outgroup) ==
  IF pr.out # "registry" THEN Outcome(pr.out, pr.tree, <<>>)
  ELSE RootClade(pr.tree, e1, e2, n, fuseRoot, edgelabel,
                 FindClade(pr.aux.partitions, SeqOfSet((1..n) \ Range(outgroup)),
                           outgroup, e1, e2, n, pr.tree.Nnode, 1))

\* the one-tip outgroup: newroot is the parent of the tip
RootSingle(t, e1, e2, n, fuseRoot, resolveRoot, edgelabel, og, newroot) ==
  IF newroot = Null THEN Outcome("unmodelled", t, <<>>)
  ELSE IF newroot = n + 1
  THEN (IF ~resolveRoot THEN Outcome("tree", t, <<>>)
        ELSE RootFinish(ResolveAtRoot(t, e1, e2, n, og), n, n + 1, fuseRoot, TRUE))
  ELSE Reroot(t, e1, e2, n, newroot, og, fuseRoot, resolveRoot, edgelabel)

RootChoose(t, e1, e2, n, fuseRoot, outgroup0, node, resolveRoot, edgelabel) ==
  IF node # Null
  THEN (IF node <= n THEN Outcome("Error", t, <<>>)
        ELSE IF node = n + 1
        THEN (IF ~resolveRoot THEN Outcome("tree", t, <<>>)
              ELSE Outcome("AmbiguousRootError", t, <<>>))
        ELSE IF PosIn(e2, node) = 0 THEN Outcome("unmodelled", t, <<>>)
        ELSE Reroot(t, e1, e2, n, node, Null, fuseRoot, resolveRoot, edgelabel))
  ELSE IF \E i \in DOMAIN outgroup0 : outgroup0[i] > n THEN Outcome("Error", t, <<>>)
  ELSE IF Len(outgroup0) = n THEN Outcome("tree", t, <<>>)
  ELSE IF Len(outgroup0) <= 1
  THEN RootSingle(t, e1, e2, n, fuseRoot, resolveRoot, edgelabel, outgroup0[1],
                  IF PosIn(e2, outgroup0[1]) = 0 THEN Null
                  ELSE e1[PosIn(e2, outgroup0[1])])
  ELSE RootMulti(propPart(<<t>>), e1, e2, n, fuseRoot, edgelabel,
                 SeqOfSet(Range(outgroup0)))

RootReordered(r0, outgroup0, node, resolveRoot, edgelabel) ==
  IF r0.out # "tree" THEN r0
  ELSE IF node = Null /\ Len(outgroup0) > 1 /\ resolveRoot
  THEN (IF Len(r0.tree.edge) < 3 THEN Outcome("DegenerateTreeError", r0.tree, <<>>)
        ELSE Outcome("RangeError", r0.tree, <<>>))
  ELSE IF HasUndefRow(r0.tree) THEN Outcome("TypeError", r0.tree, <<>>)
  ELSE IF ~Walkable(r0.tree) THEN Outcome("unmodelled", r0.tree, <<>>)
  ELSE RootChoose(r0.tree, E1(r0.tree), E2(r0.tree), NTip(r0.tree),
                  Cardinality({i \in DOMAIN r0.tree.edge :
                                 r0.tree.edge[i][1] = NTip(r0.tree) + 1}) = 2,
                  outgroup0, node, resolveRoot, edgelabel)

\* rootPhylo(phy, outgroup, node, resolveRoot, edgelabel); outgroup is a list
\* of tip numbers, node is Null when not given
rootPhylo(phy, outgroup0, node, resolveRoot, edgelabel) ==
  RootReordered(reorder(phy, "cladewise"), outgroup0, node, resolveRoot, edgelabel)

\* -------------------------------------------------------------- dropTip
\* nodeDepth(ntip, e1, e2, xx, 1): tips weigh 1, every edge adds its child's
\* weight to its parent's, front to back.  xx is indexed by node number.
RECURSIVE nodeDepth(_, _, _, _)
nodeDepth(ntip, edge, total, k) ==
  IF k = 0 THEN [v \in 1..total |-> IF v <= ntip THEN 1 ELSE 0]
  ELSE LET xx == nodeDepth(ntip, edge, total, k - 1)
       IN [xx EXCEPT ![edge[k][1]] = xx[edge[k][1]] + xx[edge[k][2]]]

\* a variant of TrimLoop that stops after one pass
TrimOnce(edge1, edge2, Ntip, keep) ==
  keep \ {i \in keep : edge2[i] > Ntip /\ edge2[i] \notin {edge1[j] : j \in keep}}

\* the trimInternal loop: internal edges whose child is no parent of a kept
\* edge are dropped until none is left
RECURSIVE TrimLoop(_, _, _, _)
TrimLoop(edge1, edge2, Ntip, keep) ==
  LET allowed == {edge1[i] : i \in keep}
      sel == {i \in keep : edge2[i] > Ntip /\ edge2[i] \notin allowed}
  IN IF sel = {} THEN keep ELSE TrimLoop(edge1, edge2, Ntip, keep \ sel)

\* the cascade run for keepSubtree only: what dropTip would do if it read the
\* subtree flag alone
TrimOnlySubtree(trimInternal, subtree) == subtree

\* whether the cascade runs (the trimInternal flag as the body reads it)
TrimActive(trimInternal, subtree) == trimInternal \/ subtree

\* the walk down the kept single-child chain below the root: j is the list of
\* chain edges, the latest first; degree is tabulated once, before the walk
RECURSIVE RootChain(_, _, _, _, _)
RootChain(edge1, edge2, keep, NEWROOT, j) ==
  LET indices == SeqOfSet({i \in keep : edge1[i] = NEWROOT})
  IN IF indices = <<>> THEN [NEWROOT |-> NEWROOT, j |-> j]
     ELSE LET nr == edge2[indices[1]]
              deg == Cardinality({i \in keep : edge1[i] = nr})
          IN IF deg > 1 THEN [NEWROOT |-> nr, j |-> indices \o j]
             ELSE RootChain(edge1, edge2, keep, nr, indices \o j)

\* NewRootEdge += phy.edgeLength[idx] over the first k entries of j
RECURSIVE SumLengths(_, _, _)
SumLengths(el, j, k) ==
  IF k = 0 THEN 0 ELSE JsAdd(SumLengths(el, j, k - 1), ArrRead(el, j[k] - 1))

\* tip.sort(); for (i = tip.length - 1 ...) tipLabel.splice(tip[i] - 1, 1)
RECURSIVE SpliceLabels(_, _, _)
SpliceLabels(labels, tips, i) ==
  IF i = 0 THEN labels
  ELSE SpliceLabels(JsSplice1(labels, tips[i] - 1), tips, i - 1)

\* a sequence of numbers sorted ascending, duplicates kept
RECURSIVE SortAsc(_)
SortAsc(s) ==
  IF s = <<>> THEN <<>>
  ELSE LET i == CHOOSE x \in DOMAIN s : \A y \in DOMAIN s : s[x] <= s[y]
       IN <<s[i]>> \o SortAsc(RemoveAt(s, i))

\* rank(x) of distinct numbers: one more than the count of smaller ones
RankOf(xs, x) == 1 + Cardinality({i \in DOMAIN xs : xs[i] < x})

\* x ? Math.floor(x) : 0 on a node number
FloorOrZero(x) == IF x = Null \/ x = NaN THEN 0 ELSE x

\* the length of the path from the root down to node v
RECURSIVE RootToTip(_, _)
RootToTip(phy, v) ==
  IF \E i \in DOMAIN phy.edge : phy.edge[i][2] = v
  THEN LET i == CHOOSE x \in DOMAIN phy.edge : phy.edge[x][2] = v
       IN phy.el[i] + RootToTip(phy, phy.edge[i][1])
  ELSE 0

\* the one-edge tree with the root-to-tip sum for its length: what the
\* all-but-one case would return if it accumulated the lengths above the tip
OneTipTreeSummed(phy, iEdge, Ntip) ==
  [edge |-> <<<<2, 1>>>>,
   wbl |-> phy.wbl,
   el |-> IF phy.wbl THEN <<RootToTip(phy, phy.edge[iEdge][2])>> ELSE <<>>,
   tipLabel |-> <<LabelAt(phy.tipLabel, phy.edge[iEdge][2] - 1)>>,
   wnl |-> phy.wnl,
   nodeLabel |-> IF phy.wnl
                 THEN <<LabelAt(phy.nodeLabel, phy.edge[iEdge][1] - Ntip - 1)>>
                 ELSE <<>>,
   Nnode |-> 1,
   rootEdge |-> Null,
   order |-> ""]

\* The all-but-one case: the one-edge tree built from the remaining tip
OneTipTree(phy, iEdge, Ntip) ==
  [edge |-> <<<<2, 1>>>>,
   wbl |-> phy.wbl,
   el |-> IF phy.wbl THEN <<ArrRead(phy.el, iEdge - 1)>> ELSE <<>>,
   tipLabel |-> <<LabelAt(phy.tipLabel, phy.edge[iEdge][2] - 1)>>,
   wnl |-> phy.wnl,
   nodeLabel |-> IF phy.wnl
                 THEN <<LabelAt(phy.nodeLabel, phy.edge[iEdge][1] - Ntip - 1)>>
                 ELSE <<>>,
   Nnode |-> 1,
   rootEdge |-> Null,
   order |-> ""]

\* "[" + Nvec[x - 1] + "_tips]"
TipsLabel(k) == "[" \o ToString(k) \o "_tips]"

\* keep after the terminal edges of the dropped tips, the cascade, the
\* subtending edges of a subtree, and the root-edge budget
DropKeep(edge1, edge2, Ntip, tip, trimInternal, subtree) ==
  LET all == DOMAIN edge1
      keep0 == {i \in all : \A k \in DOMAIN tip :
                               FirstPos(edge2, LAMBDA c : c = tip[k]) # i}
      keep1 == IF trimInternal THEN TrimLoop(edge1, edge2, Ntip, keep0) ELSE keep0
      setKeep == {edge1[i] : i \in keep1}
      setNotKeep == {edge1[i] : i \in all \ keep1}
  IN IF trimInternal /\ subtree
     THEN keep1 \cup {i \in all : edge1[i] \in setKeep /\ edge1[i] \in setNotKeep}
     ELSE keep1

\* the chain c dropped, the lengths of its first rootEdge edges summed
DropChain(phy, keep, rootEdge, c, used) ==
  [keep |-> keep \ Range(c.j),
   NEWROOT |-> c.NEWROOT,
   rootEdge |-> IF used < rootEdge /\ phy.rootEdge # Null
                THEN JsAdd(SumLengths(phy.el, c.j, used), phy.rootEdge)
                ELSE SumLengths(phy.el, c.j, used)]

DropChained(phy, keep, rootEdge, c) ==
  DropChain(phy, keep, rootEdge, c, IF Len(c.j) < rootEdge THEN Len(c.j) ELSE rootEdge)

\* the root-edge budget: the kept chain below a single-child root is dropped
\* and up to rootEdge of its lengths become the new root edge
DropRootEdge(phy, edge1, edge2, keep, ROOT, rootEdge) ==
  IF Cardinality({i \in keep : edge1[i] = ROOT}) # 1
  THEN [keep |-> keep, NEWROOT |-> ROOT, rootEdge |-> phy.rootEdge]
  ELSE DropChained(phy, keep, rootEdge, RootChain(edge1, edge2, keep, ROOT, <<>>))

\* phy.tipLabel[t - 1] = "[1_tip]" for the dropped tips a subtree keeps
RECURSIVE MarkKept(_, _, _, _)
MarkKept(labels, tip, old, k) ==
  IF k = 0 THEN labels
  ELSE LET l == MarkKept(labels, tip, old, k - 1)
       IN IF tip[k] \in Range(old) THEN ArrWrite(l, tip[k] - 1, "[1_tip]") ELSE l

\* if (collapseSinglesFlag) phy = collapseSingles(phy)
DropCollapse(res, collapseSinglesFlag) ==
  IF collapseSinglesFlag THEN collapseSingles(res, FALSE)
  ELSE Outcome("tree", res, <<>>)

\* Nnode, the renumbering through newNb, and the node labels of the old nodes
\* whose newNb is positive
DropRenumber(phy, Ntip, collapseSinglesFlag, newEl, ranked, newNtip, tipLabel, newNb) ==
  LET indices == SeqOfSet({i \in Ntip..(Len(newNb) - 1) :
                              ArrRead(newNb, i) # Null /\ ArrRead(newNb, i) > 0})
  IN DropCollapse(
       [phy EXCEPT
          !.edge = [i \in DOMAIN ranked |->
                      <<FloorOrZero(ArrRead(newNb, ranked[i][1] - 1)),
                        FloorOrZero(IF ranked[i][2] > newNtip
                                    THEN ArrRead(newNb, ranked[i][2] - 1)
                                    ELSE ranked[i][2])>>],
          !.el = newEl,
          !.tipLabel = tipLabel,
          !.Nnode = Len(ranked) - newNtip + 1,
          !.nodeLabel = IF phy.wnl
                        THEN [i \in DOMAIN indices |->
                                LabelAt(phy.nodeLabel, indices[i] - Ntip)]
                        ELSE <<>>],
       collapseSinglesFlag)

\* the labels of the dropped tips spliced out, the labels of the nodes that
\* became tips appended
DropLabels(phy, Ntip, Nnode, NEWROOT, trimInternal, subtree, Nvec, collapseSinglesFlag, newEl, ranked, old, marked, tip) ==
  LET node2tip == SelectSeq(old, LAMBDA x : x > Ntip)
      newTipLabel ==
        IF subtree /\ ~phy.wnl
        THEN [i \in DOMAIN node2tip |-> TipsLabel(ArrRead(Nvec, node2tip[i] - 1))]
        ELSE IF ~phy.wnl THEN [i \in DOMAIN node2tip |-> "NA"]
        ELSE [i \in DOMAIN node2tip |-> LabelAt(phy.nodeLabel, node2tip[i] - Ntip - 1)]
  IN DropRenumber(phy, Ntip, collapseSinglesFlag, newEl, ranked, Len(old),
                  IF subtree \/ ~trimInternal
                  THEN SpliceLabels(marked, SortAsc(tip), Len(tip)) \o newTipLabel
                  ELSE SpliceLabels(marked, SortAsc(tip), Len(tip)),
                  NumberNodes(ArrWrite(Zeros(Ntip + Nnode), NEWROOT - 1, Len(old) + 1),
                              SeqOfSet({ranked[i][2] :
                                          i \in {j \in DOMAIN ranked :
                                                   ranked[j][2] > Len(old)}}),
                              1, Len(old)))

\* the terminal children replaced by their rank
DropRank(phy, Ntip, Nnode, NEWROOT, tip0, trimInternal, subtree, Nvec, collapseSinglesFlag, newEdge, newEl, TERMS, old) ==
  IF Cardinality(Range(old)) # Len(old) THEN Outcome("unmodelled", phy, <<>>)
  ELSE DropLabels(phy, Ntip, Nnode, NEWROOT, trimInternal, subtree, Nvec,
                  collapseSinglesFlag, newEl,
                  [i \in DOMAIN newEdge |->
                     IF i \in TERMS THEN <<newEdge[i][1], RankOf(old, newEdge[i][2])>>
                     ELSE newEdge[i]],
                  old,
                  IF subtree THEN MarkKept(phy.tipLabel, tip0, old, Len(tip0))
                  ELSE phy.tipLabel,
                  IF subtree THEN SelectSeq(tip0, LAMBDA t : t \notin Range(old))
                  ELSE tip0)

\* TERMS: the kept edges whose child is no parent; their children in order
DropTerms(phy, Ntip, Nnode, NEWROOT, tip0, trimInternal, subtree, Nvec, collapseSinglesFlag, newEdge, newEl, TERMS) ==
  DropRank(phy, Ntip, Nnode, NEWROOT, tip0, trimInternal, subtree, Nvec,
           collapseSinglesFlag, newEdge, newEl, TERMS,
           [i \in 1..Cardinality(TERMS) |-> newEdge[SeqOfSet(TERMS)[i]][2]])

DropKept(phy, Ntip, Nnode, NEWROOT, tip0, trimInternal, subtree, Nvec, collapseSinglesFlag, newEdge, newEl) ==
  DropTerms(phy, Ntip, Nnode, NEWROOT, tip0, trimInternal, subtree, Nvec,
            collapseSinglesFlag, newEdge, newEl,
            {i \in DOMAIN newEdge :
               newEdge[i][2] \notin {newEdge[j][1] : j \in DOMAIN newEdge}})

\* From "Drop the edges not kept" to the end of dropTip
DropFinish(phy, Ntip, Nnode, kept, NEWROOT, tip0, trimInternal, subtree, Nvec, collapseSinglesFlag) ==
  DropKept(phy, Ntip, Nnode, NEWROOT, tip0, trimInternal, subtree, Nvec,
           collapseSinglesFlag,
           [i \in DOMAIN kept |-> phy.edge[kept[i]]],
           IF phy.wbl THEN [i \in DOMAIN kept |-> ArrRead(phy.el, kept[i] - 1)]
           ELSE <<>>)

DropBudget(phy, Ntip, tip, trimInternal, subtree, Nvec, collapseSinglesFlag, b) ==
  DropFinish([phy EXCEPT !.rootEdge = b.rootEdge], Ntip, phy.Nnode, SeqOfSet(b.keep),
             b.NEWROOT, tip, trimInternal, subtree, Nvec, collapseSinglesFlag)

DropKeeps(phy, Ntip, tip, trimInternal, subtree, rootEdge, Nvec, collapseSinglesFlag, keep2) ==
  IF trimInternal /\ rootEdge # 0 /\ phy.wbl /\ keep2 = {}
  THEN Outcome("RangeError", phy, <<>>)
  ELSE DropBudget(phy, Ntip, tip, trimInternal, subtree, Nvec, collapseSinglesFlag,
                  IF trimInternal /\ rootEdge # 0 /\ phy.wbl
                  THEN DropRootEdge(phy, E1(phy), E2(phy), keep2, Ntip + 1, rootEdge)
                  ELSE [keep |-> keep2, NEWROOT |-> Ntip + 1,
                        rootEdge |-> phy.rootEdge])

\* the edge columns are read: every row must be there
DropColumns(r3, Ntip, tip, trimInternal, subtree, rootEdge, collapseSinglesFlag) ==
  IF r3.out # "tree" THEN r3
  ELSE IF HasUndefRow(r3.tree) THEN Outcome("TypeError", r3.tree, <<>>)
  ELSE IF ~Walkable(r3.tree)
          \/ \E i \in DOMAIN r3.tree.edge :
               \/ r3.tree.edge[i][1] > Ntip + r3.tree.Nnode
               \/ r3.tree.edge[i][2] > Ntip + r3.tree.Nnode
  THEN Outcome("unmodelled", r3.tree, <<>>)
  ELSE DropKeeps(r3.tree, Ntip, tip, trimInternal, subtree, rootEdge,
                 IF subtree
                 THEN nodeDepth(Ntip, r3.tree.edge, Ntip + r3.tree.Nnode,
                                Len(r3.tree.edge))
                 ELSE <<>>,
                 collapseSinglesFlag,
                 DropKeep(E1(r3.tree), E2(r3.tree), Ntip, tip, trimInternal, subtree))

\* if (subtree) tr = reorder(phy, "postorder"): tr is phy itself
DropPost(r2, Ntip, tip, trimInternal, subtree, rootEdge, collapseSinglesFlag) ==
  DropColumns(IF r2.out = "tree" /\ subtree THEN reorder(r2.tree, "postorder") ELSE r2,
              Ntip, tip, trimInternal, subtree, rootEdge, collapseSinglesFlag)

\* phy = reorder(phy)
DropReorder(r1, Ntip, tip, trimInternal, subtree, rootEdge, collapseSinglesFlag) ==
  DropPost(IF r1.out = "tree" THEN reorder(r1.tree, "cladewise") ELSE r1,
           Ntip, tip, trimInternal, subtree, rootEdge, collapseSinglesFlag)

\* if (!rooted): the root edge is forgotten and, for a subtree, the tree is
\* rooted on the first remaining tip
DropRooted(p1, Ntip, tip, remaining, trimInternal0, subtree, rootEdge0, reroot, collapseSinglesFlag) ==
  DropReorder(IF ~reroot THEN Outcome("tree", p1, <<>>)
              ELSE IF remaining = <<>> THEN Outcome("unmodelled", p1, <<>>)
              ELSE rootPhylo(p1, <<remaining[1]>>, Null, FALSE, FALSE),
              Ntip, tip, TrimActive(trimInternal0, subtree), subtree,
              IF reroot THEN 0 ELSE rootEdge0, collapseSinglesFlag)

\* the all-but-one case
DropAllButOne(phy0, Ntip, iEdge) ==
  IF iEdge = 0 THEN Outcome("tree", phy0, <<>>)
  ELSE IF phy0.edge[iEdge] = UndefRow THEN Outcome("TypeError", phy0, <<>>)
  ELSE Outcome("tree", OneTipTree(phy0, iEdge, Ntip), <<>>)

\* a variant of DropsAll that looks at trimInternal only
DropsAllTrimmed(phy0, Ntip, tip, trimInternal0) ==
  Len(tip) = Ntip /\ trimInternal0

\* tip.length === Ntip and (phy.Nnode < 3 || trimInternal)
DropsAll(phy0, Ntip, tip, trimInternal0) ==
  Len(tip) = Ntip /\ (phy0.Nnode < 3 \/ trimInternal0)

DropFiltered(phy0, Ntip, tip, remaining, trimInternal0, subtree, rootEdge0, rooted0, collapseSinglesFlag) ==
  IF rooted0 = "default" /\ phy0.rootEdge = Null /\ HasUndefRow(phy0)
  THEN Outcome("TypeError", phy0, <<>>)
  ELSE IF tip = <<>> THEN Outcome("tree", phy0, <<>>)
  ELSE IF DropsAll(phy0, Ntip, tip, trimInternal0)
  THEN Outcome("null", phy0, <<>>)
  ELSE IF Len(tip) = Ntip - 1 /\ trimInternal0
  THEN DropAllButOne(phy0, Ntip,
                     FirstPos(phy0.edge,
                              LAMBDA r : r = UndefRow \/ r[2] = remaining[1]))
  ELSE DropRooted(IF rooted0 # "false" THEN phy0 ELSE [phy0 EXCEPT !.rootEdge = Null],
                  Ntip, tip, remaining, trimInternal0, subtree, rootEdge0,
                  rooted0 = "false" /\ subtree, collapseSinglesFlag)

DropInRange(phy0, Ntip, tip, trimInternal0, subtree, rootEdge0, rooted0, collapseSinglesFlag) ==
  DropFiltered(phy0, Ntip, tip,
               SelectSeq([i \in 1..Ntip |-> i], LAMBDA x : x \notin Range(tip)),
               trimInternal0, subtree, rootEdge0, rooted0, collapseSinglesFlag)

\* dropTip(phy, tip, trimInternal, subtree, rootEdge, rooted, collapseSinglesFlag)
\* with tip a list of tip numbers (all at least 1) and rooted one of "default"
\* (the argument is left out), "true", "false"
dropTip(phy0, tip0, trimInternal0, subtree, rootEdge0, rooted0, collapseSinglesFlag) ==
  DropInRange(phy0, NTip(phy0), SelectSeq(tip0, LAMBDA t : t <= NTip(phy0)),
              trimInternal0, subtree, rootEdge0, rooted0, collapseSinglesFlag)

\* phy.tipLabel.indexOf(t) + 1, or null when the label is not there
LabelNumber(phy0, t) ==
  IF t \in Range(phy0.tipLabel)
  THEN CHOOSE i \in DOMAIN phy0.tipLabel :
         phy0.tipLabel[i] = t /\ \A j \in 1..(i - 1) : phy0.tipLabel[j] # t
  ELSE Null

\* tip.map(label -> number or null).filter(x => x !== null)
LabelNumbers(phy0, tip0) ==
  SelectSeq([k \in DOMAIN tip0 |-> LabelNumber(phy0, tip0[k])], LAMBDA x : x # Null)

\* dropTip with tip given by label: one string (isString) or a non-empty list
\* of strings
dropTipByLabel(phy0, tip0, isString, trimInternal0, subtree, rootEdge0, rooted0, collapseSinglesFlag) ==
  dropTip(phy0, LabelNumbers(phy0, IF isString THEN <<tip0>> ELSE tip0),
          trimInternal0, subtree, rootEdge0, rooted0, collapseSinglesFlag)

\* ------------------------------------------------------ the state machine
\* the ascending lists of the non-empty subsets of the tips 1..n
TipLists(n) == {SeqOfSet(S) : S \in (SUBSET (1..n)) \ {{}}}

\* dropTip's tip lists: those, the lists that name one tip twice, and the
\* empty list
DropLists(n) == TipLists(n) \cup {<<a, a>> : a \in 1..n} \cup {<<>>}

\* a label no tree carries
NoSuchLabel == "Z"

\* dropTip's single labels: the first tip's and one that is not in the tree
DropLabelStrings(t) ==
  {t.tipLabel[i] : i \in {1} \cap DOMAIN t.tipLabel} \cup {NoSuchLabel}

\* dropTip's label lists: unknown labels only, a known and an unknown one,
\* known ones only
DropLabelLists(t) ==
  {<<NoSuchLabel>>}
    \cup {<<t.tipLabel[i], NoSuchLabel>> : i \in {Len(t.tipLabel)} \cap DOMAIN t.tipLabel}
    \cup {<<t.tipLabel[1], t.tipLabel[i]>> : i \in {Len(t.tipLabel)} \cap DOMAIN t.tipLabel}

\* dropTip's options: the defaults, and each option changed on its own
DropDefaults ==
  [trimInternal |-> TRUE, subtree |-> FALSE, rootEdge |-> 0, rooted |-> "default",
   collapseSinglesFlag |-> TRUE]

DropOptions ==
  {DropDefaults,
   [DropDefaults EXCEPT !.trimInternal = FALSE],
   [DropDefaults EXCEPT !.subtree = TRUE],
   [DropDefaults EXCEPT !.rootEdge = 1],
   [DropDefaults EXCEPT !.rooted = "false"],
   [DropDefaults EXCEPT !.collapseSinglesFlag = FALSE]}

\* rootPhylo's arguments: an outgroup of one or two tips with or without
\* resolveRoot, or a node with or without edgelabel
RootArgs(t) ==
  {[outgroup |-> og, node |-> Null, resolveRoot |-> rr, edgelabel |-> FALSE] :
     og \in {l \in TipLists(NTip(t)) : Len(l) <= 2}, rr \in BOOLEAN}
  \cup
  {[outgroup |-> <<1>>, node |-> v, resolveRoot |-> FALSE, edgelabel |-> el] :
     v \in (NTip(t) + 1)..(NTip(t) + t.Nnode), el \in BOOLEAN}

\* edges by ascending child
ChildAscending(t) == \A i \in DOMAIN t.edge : i = 1 \/ t.edge[i - 1][2] < t.edge[i][2]

\* the trees propPart is given after the first: bare trees on the same tips
\* with up to two internal nodes, none of them with a single child
Companions(t) ==
  {u \in InputTrees :
     /\ u.tipLabel = t.tipLabel /\ ~u.wbl /\ ~u.wnl /\ u.Nnode <= 2
     /\ ChildAscending(u)
     /\ \A i \in DOMAIN u.edge : \E j \in DOMAIN u.edge :
           j # i /\ u.edge[j][1] = u.edge[i][1]}

Live == budget > 0 /\ out = "tree"

\* the state after a call with outcome r
Step(name, a, r) ==
  /\ tree' = r.tree
  /\ pre' = tree
  /\ op' = name
  /\ args' = a
  /\ out' = r.out
  /\ aux' = r.aux
  /\ prev' = [op |-> op, args |-> args, out |-> out]
  /\ budget' = budget - 1
  /\ UNCHANGED orig

\* nodeDepthEdgeLength: the loop over the edges from the last to the first,
\* i the 1-based position of the edge about to be handled
RECURSIVE DepthLoop(_, _, _, _, _)
DepthLoop(edge1, edge2, edge_length, xx, i) ==
  IF i = 0 THEN xx
  ELSE DepthLoop(edge1, edge2, edge_length,
                 [xx EXCEPT ![edge2[i]] = xx[edge1[i]] + edge_length[i]], i - 1)

\* the depths nodeDepthEdgeLength leaves in the preallocated array xx
nodeDepthEdgeLength(edge1, edge2, edge_length, xx) ==
  DepthLoop(edge1, edge2, edge_length, xx, Len(edge1))

Reorder ==
  /\ Live
  /\ \E order \in {"cladewise", "postorder"} :
       Step("reorder", <<order>>, reorder(tree, order))

\* nodeDepthEdgeLength on the columns and lengths of the tree, the depths
\* preallocated with 0; the depths are left in aux
NodeDepthEdgeLength ==
  /\ Live /\ tree.wbl /\ ~HasUndefRow(tree)
  /\ Step("nodeDepthEdgeLength", <<>>,
          Outcome("tree", tree,
                  nodeDepthEdgeLength(E1(tree), E2(tree), tree.el,
                                      [v \in 1..(NTip(tree) + tree.Nnode) |-> 0])))

CollapseSingles ==
  /\ Live
  /\ \E rootEdge \in BOOLEAN :
       Step("collapseSingles", <<rootEdge>>, collapseSingles(tree, rootEdge))

DropTip ==
  /\ Live
  /\ \E tip \in DropLists(NTip(tree)), o \in DropOptions :
       Step("dropTip", <<tip, o>>,
            dropTip(tree, tip, o.trimInternal, o.subtree, o.rootEdge, o.rooted,
                    o.collapseSinglesFlag))

\* dropTip called with labels, with the default options or trimInternal off;
\* args[3] tells a single string from a list
DropTipByLabel ==
  /\ Live
  /\ \E o \in {DropDefaults, [DropDefaults EXCEPT !.trimInternal = FALSE]} :
       \/ \E tip \in DropLabelStrings(tree) :
            Step("dropTip", <<tip, o, "string">>,
                 dropTipByLabel(tree, tip, TRUE, o.trimInternal, o.subtree, o.rootEdge,
                                o.rooted, o.collapseSinglesFlag))
       \/ \E tip \in DropLabelLists(tree) :
            Step("dropTip", <<tip, o, "strings">>,
                 dropTipByLabel(tree, tip, FALSE, o.trimInternal, o.subtree, o.rootEdge,
                                o.rooted, o.collapseSinglesFlag))

RootPhylo ==
  /\ Live
  /\ \E a \in RootArgs(tree) :
       Step("rootPhylo", <<a>>,
            rootPhylo(tree, a.outgroup, a.node, a.resolveRoot, a.edgelabel))

UnrootPhylo ==
  /\ Live
  /\ \E collapseSinglesFlag \in BOOLEAN, keepRootEdge \in BOOLEAN :
       Step("unrootPhylo", <<collapseSinglesFlag, keepRootEdge>>,
            unrootPhylo(tree, collapseSinglesFlag, keepRootEdge))

PropPart ==
  /\ Live
  /\ \E k \in 1..MaxTrees :
       \E others \in [1..(k - 1) -> Companions(tree)] :
         Step("propPart", <<k, others>>, propPart(<<tree>> \o others))

InitFrom(T, steps) ==
  /\ tree \in T
  /\ pre = tree
  /\ orig = tree
  /\ op = "init"
  /\ args = <<>>
  /\ out = "tree"
  /\ aux = <<>>
  /\ prev = [op |-> "none", args |-> <<>>, out |-> "tree"]
  /\ budget = steps

\* ------------------------------------------------------ the specifications
\* the trees a general run starts from: fewer tips, fully dressed, edges by
\* ascending child
SeedTrees ==
  {t \in InputTrees : NTip(t) < MaxTips /\ t.wbl /\ t.wnl /\ ChildAscending(t)}

\* the trees dropTip is run on: bare, or fully dressed with a root edge
DropTrees == {t \in InputTrees : t.wbl = (t.rootEdge # Null)}

\* the trees rooting and unrooting start from: fully dressed, no root edge
\* or one, edges by ascending child
RootTrees ==
  {t \in InputTrees : t.wbl /\ t.wnl /\ ChildAscending(t)}

\* the trees propPart is run on: without lengths
PartTrees == {t \in InputTrees : ~t.wbl}

\* any sequence of MaxSteps calls
Init == InitFrom(SeedTrees, MaxSteps)

Next ==
  \/ Reorder
  \/ CollapseSingles
  \/ DropTip
  \/ DropTipByLabel
  \/ RootPhylo
  \/ UnrootPhylo
  \/ PropPart

Spec == Init /\ [][Next]_vars

\* sequences of one operation, from every input tree
InitReorder == InitFrom(InputTrees, MaxSteps)

SpecReorder == InitReorder /\ [][Reorder]_vars

\* reorder and nodeDepthEdgeLength in any order
SpecDepth == InitReorder /\ [][Reorder \/ NodeDepthEdgeLength]_vars

InitCollapse == InitFrom(InputTrees \cup OneTipTrees, MaxSteps)

SpecCollapse == InitCollapse /\ [][CollapseSingles]_vars

\* the labelled trees with as many internal nodes as tips: each has a
\* single-child node, and up to three nodes of two children or more
LabelledTrees ==
  UNION {{MkTree(MaxTips, MaxTips, par, ord, TRUE, TRUE, Null) :
            ord \in ChildOrders(MaxTips, MaxTips, par)} :
         par \in ParentMaps(MaxTips, MaxTips)}

\* one collapseSingles on such a tree
SpecLabels == InitFrom(LabelledTrees, 1) /\ [][CollapseSingles]_vars

\* one dropTip
InitDrop == InitFrom(DropTrees, 1)

NextDrop ==
  \/ DropTip
  \/ DropTipByLabel

SpecDrop == InitDrop /\ [][NextDrop]_vars

\* rootings and unrootings
InitRoot == InitFrom(RootTrees, MaxSteps)

NextRoot == RootPhylo \/ UnrootPhylo

SpecRoot == InitRoot /\ [][NextRoot]_vars

\* one propPart
InitPart == InitFrom(PartTrees, 1)

SpecPart == InitPart /\ [][PropPart]_vars

\* ---------------------------------------------------------------- claims
\* the tree invariants of the data model that C1 lists
TreeInvariants(t) ==
  LET n == NTip(t)
      root == n + 1
      nodes == 1..(n + t.Nnode)
  IN /\ ~HasUndefRow(t)
     /\ Len(t.edge) = n + t.Nnode - 1
     /\ \A i \in DOMAIN t.edge : t.edge[i][1] \in nodes /\ t.edge[i][2] \in nodes
     /\ \A v \in nodes \ {root} :
           Cardinality({i \in DOMAIN t.edge : t.edge[i][2] = v}) = 1
     /\ \A i \in DOMAIN t.edge : t.edge[i][2] # root
     /\ \A i \in DOMAIN t.edge : t.edge[i][1] > n

\* the set of (parent, child, length) triples of a tree with every row defined
EdgeTriples(t) ==
  {<<t.edge[i][1], t.edge[i][2], IF t.wbl THEN ArrRead(t.el, i - 1) ELSE Null>> :
     i \in DOMAIN t.edge}

\* the rows that share a parent stand in the same relative order in t and u
SiblingOrderKept(t, u) ==
  \A i \in DOMAIN t.edge : \A j \in DOMAIN t.edge :
    (i < j /\ t.edge[i][1] = t.edge[j][1]) =>
      \E a \in DOMAIN u.edge : \E b \in DOMAIN u.edge :
        a < b /\ u.edge[a] = t.edge[i] /\ u.edge[b] = t.edge[j]

\* the last call was the first call of the run
FirstCall(name) == op = name /\ budget = MaxSteps - 1

\* C1: starting from a valid tree with at least two tips, every tree returned
\* by a successful reorder, dropTip, collapseSingles, rootPhylo or unrootPhylo
\* call, after any sequence of such calls, satisfies the tree invariants.
C1_ReturnedTreesValid ==
  (op \in {"reorder", "dropTip", "collapseSingles", "rootPhylo", "unrootPhylo"}
   /\ out = "tree" /\ ValidTree(orig) /\ NTip(orig) >= 2)
    => TreeInvariants(tree)

\* C2: for a valid tree with Nnode >= 2 and either target, reorder's index
\* vector is a permutation of 0..edges-1, the reordered tree has the same
\* (parent, child, length) triples, and siblings keep their relative order.
C2_ReorderIsPermutation ==
  (FirstCall("reorder") /\ ValidTree(pre) /\ pre.Nnode >= 2)
    => /\ out = "tree"
       /\ Len(aux) = Len(pre.edge)
       /\ Range(aux) = 0..(Len(pre.edge) - 1)
       /\ ~HasUndefRow(tree)
       /\ Len(tree.edge) = Len(pre.edge)
       /\ EdgeTriples(tree) = EdgeTriples(pre)
       /\ SiblingOrderKept(pre, tree)

\* C3: for a valid tree T, reorder(reorder(T, postorder), cladewise) returns a
\* tree whose set of (parent, child, length) edges is that of T.
C3_PostorderThenCladewise ==
  (op = "reorder" /\ budget = MaxSteps - 2 /\ args = <<"cladewise">>
   /\ prev.op = "reorder" /\ prev.args = <<"postorder">> /\ ValidTree(orig))
    => /\ out = "tree"
       /\ ~HasUndefRow(tree)
       /\ EdgeTriples(tree) = EdgeTriples(orig)

\* the tips of t that a dropTip call with tip list tips leaves in place
Survivors(t, tips) == (1..NTip(t)) \ Range(tips)

\* the position of the edge of t that ends in node v
EdgeInto(t, v) == CHOOSE i \in DOMAIN t.edge : t.edge[i][2] = v

\* the last call was dropTip on a valid tree with trimInternal on and a list
\* of distinct tips that leaves exactly one tip
AllButOneDropped ==
  /\ op = "dropTip" /\ Len(args) = 2 /\ ValidTree(pre) /\ args[2].trimInternal
  /\ Cardinality(Range(args[1])) = Len(args[1])
  /\ Len(args[1]) = NTip(pre) - 1

\* C4: dropTip with trimInternal on and exactly n-1 distinct tips returns the
\* one-tip tree: edge (2,1), Nnode 1, the surviving label, the surviving tip's
\* own terminal edge length, and the label of the surviving tip's parent.
C4_AllButOneTip ==
  AllButOneDropped =>
    LET s == CHOOSE v \in Survivors(pre, args[1]) : TRUE
        i == EdgeInto(pre, s)
    IN /\ out = "tree"
       /\ tree.edge = <<<<2, 1>>>>
       /\ tree.Nnode = 1
       /\ tree.tipLabel = <<pre.tipLabel[s]>>
       /\ tree.wbl = pre.wbl
       /\ pre.wbl => tree.el = <<pre.el[i]>>
       /\ tree.wnl = pre.wnl
       /\ pre.wnl => tree.nodeLabel = <<pre.nodeLabel[pre.edge[i][1] - NTip(pre)]>>

\* C4's case: three of four tips dropped from a tree with lengths and node
\* labels whose survivor hangs below a non-root node
C4_Witness ==
  /\ AllButOneDropped /\ out = "tree"
  /\ NTip(pre) = 4 /\ pre.wbl /\ pre.wnl
  /\ pre.edge[EdgeInto(pre, CHOOSE v \in Survivors(pre, args[1]) : TRUE)][1]
       # NTip(pre) + 1
  /\ tree.Nnode = 1

\* the last call was dropTip with every option at its default on a valid tree,
\* with a list of distinct tips that leaves at least two tips
DefaultDrop ==
  /\ op = "dropTip" /\ Len(args) = 2 /\ ValidTree(pre) /\ args[2] = DropDefaults
  /\ Cardinality(Range(args[1])) = Len(args[1])
  /\ Cardinality(Survivors(pre, args[1])) >= 2

\* what C9 says of the tree returned by the last dropTip call
DropRenumbered ==
  LET kept == SeqOfSet(Survivors(pre, args[1]))
      n1 == Len(kept)
  IN /\ out = "tree"
     /\ ~HasUndefRow(tree)
     /\ tree.tipLabel = [k \in 1..n1 |-> pre.tipLabel[kept[k]]]
     /\ \A i \in DOMAIN tree.edge : tree.edge[i][2] # n1 + 1
     /\ {tree.edge[i][1] : i \in DOMAIN tree.edge} = (n1 + 1)..(n1 + tree.Nnode)
     /\ \A v \in (n1 + 1)..(n1 + tree.Nnode) :
          Cardinality({i \in DOMAIN tree.edge : tree.edge[i][1] = v}) # 1
     /\ (pre.edge = <<<<4, 1>>, <<4, 5>>, <<5, 2>>, <<5, 3>>>> /\ args[1] = <<1>>)
          => /\ tree.tipLabel = <<"B", "C">>
             /\ tree.edge = <<<<3, 1>>, <<3, 2>>>>

\* C9 as stated: for a valid tree and any set of dropped tips leaving at least
\* two survivors, dropTip with defaults returns a tree whose tipLabel is the
\* original one without the dropped labels, whose root is n'+1, whose internal
\* nodes are n'+1..n'+Nnode, and in which no internal node has exactly one
\* child; (A,(B,C)) without A is (B,C) with edges (3,1),(3,2).
C9_DropRenumbersAnySet == DefaultDrop => DropRenumbered

\* C9 amended: the same for any non-empty set of dropped tips; with the empty
\* set the input tree comes back as it is, single-child nodes included.
C9_DropRenumbers ==
  /\ (DefaultDrop /\ args[1] # <<>>) => DropRenumbered
  /\ (DefaultDrop /\ args[1] = <<>>) => (out = "tree" /\ tree = pre)

\* C9's case: the scenario tree (A,(B,C)) after dropping A
C9_Witness ==
  /\ DefaultDrop /\ out = "tree"
  /\ pre.edge = <<<<4, 1>>, <<4, 5>>, <<5, 2>>, <<5, 3>>>> /\ args[1] = <<1>>
  /\ tree.edge = <<<<3, 1>>, <<3, 2>>>>

\* t and u agree on edges, lengths, Nnode, tip labels and node labels
SameTree(t, u) ==
  /\ t.edge = u.edge /\ t.wbl = u.wbl /\ t.el = u.el /\ t.Nnode = u.Nnode
  /\ t.tipLabel = u.tipLabel /\ t.wnl = u.wnl /\ t.nodeLabel = u.nodeLabel

\* C5: collapseSingles is idempotent: for every valid tree T the second of two
\* calls in a row returns the first call's result (edges, lengths, Nnode, tip
\* labels, node labels), and neither call fails.
C5_CollapseIdempotent ==
  /\ (FirstCall("collapseSingles") /\ ValidTree(pre)) => out = "tree"
  /\ (op = "collapseSingles" /\ prev.op = "collapseSingles"
      /\ budget = MaxSteps - 2 /\ ValidTree(orig))
       => (out = "tree" /\ SameTree(tree, pre))

\* every internal node of t has at least two children
NoSingles(t) ==
  \A v \in (NTip(t) + 1)..(NTip(t) + t.Nnode) :
    Cardinality({i \in DOMAIN t.edge : t.edge[i][1] = v}) >= 2

TipsBelow(t, v) ==
  {t.tipLabel[x] : x \in ReachFrom(t, {v}, Len(t.edge)) \cap (1..NTip(t))}

\* the non-trivial bipartitions of t: the splits of the tip set into the tips
\* below an edge and the others, both sides with two tips or more
Splits(t) ==
  LET all == Range(t.tipLabel)
      clades == {TipsBelow(t, t.edge[i][2]) : i \in DOMAIN t.edge}
  IN {{c, all \ c} : c \in {d \in clades : Cardinality(d) >= 2
                                         /\ Cardinality(all \ d) >= 2}}

\* an outgroup rootPhylo accepts on t: one tip, or the tips of a clade
Admissible(t, og) ==
  \/ Len(og) = 1
  \/ \E i \in DOMAIN t.edge :
       TipsBelow(t, t.edge[i][2]) = {t.tipLabel[og[k]] : k \in DOMAIN og}

\* the last call was rootPhylo(T, outgroup) on an input tree with three tips or
\* more, no single-child node and no root edge, and an admissible outgroup
RootedByOutgroup(a, t) ==
  /\ ValidTree(t) /\ NTip(t) >= 3 /\ NoSingles(t) /\ t.rootEdge = Null
  /\ a.node = Null /\ Admissible(t, a.outgroup)

\* C6: for every valid tree T and every admissible outgroup,
\* unrootPhylo(rootPhylo(T, outgroup)) has the non-trivial bipartitions of T
\* (and both calls succeed).
C6_RootUnrootKeepsSplits ==
  /\ (FirstCall("rootPhylo") /\ RootedByOutgroup(args[1], pre)) => out = "tree"
  /\ (op = "unrootPhylo" /\ budget = MaxSteps - 2 /\ args = <<FALSE, FALSE>>
      /\ prev.op = "rootPhylo" /\ RootedByOutgroup(prev.args[1], orig))
       => /\ out = "tree"
          /\ TreeInvariants(tree)
          /\ Range(tree.tipLabel) = Range(orig.tipLabel)
          /\ Splits(tree) = Splits(orig)

\* C7: whenever unrootPhylo with keepRootEdge=false completes without error,
\* the basal-root case included, isRooted of the returned tree is false.
C7_UnrootedAfterUnroot ==
  (op = "unrootPhylo" /\ out = "tree" /\ args[2] = FALSE)
    => ~isRooted(tree, NTip(tree))

\* C8: propPart over k >= 1 valid trees sharing a tip label set returns a
\* registry whose entry 0 has count k, whose other entries have a count in
\* 1..k, and whose partitions and counts lists have the same length.
C8_RegistryCounts ==
  (op = "propPart" /\ ValidTree(pre)
   /\ \A i \in DOMAIN args[2] : ValidTree(args[2][i]))
    => /\ out = "registry"
       /\ Len(aux.number) >= 1
       /\ aux.number[1] = args[1]
       /\ \A j \in DOMAIN aux.number : aux.number[j] \in 1..args[1]
       /\ Len(aux.partitions) = Len(aux.number)

\* the last call was the first of the run: rootPhylo(T, [tip]) on a valid
\* tree, with no node given
RootedAtTip ==
  /\ FirstCall("rootPhylo") /\ ValidTree(pre)
  /\ args[1].node = Null /\ Len(args[1].outgroup) = 1

\* the tip sets that hang off node p of t when p is made the root: the clades
\* of p's children and, for a p that is not the root, all the tips not below p
CladesAround(t, p) ==
  {TipsBelow(t, c) : c \in ChildSet(t, p)}
    \cup (IF p = NTip(t) + 1 THEN {} ELSE {Range(t.tipLabel) \ TipsBelow(t, p)})

\* the tree is the caterpillar (((A,B),C),D): root 5, nodes 6 and 7
Caterpillar(t) ==
  /\ t.tipLabel = <<"A", "B", "C", "D">> /\ t.Nnode = 3
  /\ Range(t.edge) = {<<5, 6>>, <<5, 4>>, <<6, 7>>, <<6, 3>>, <<7, 1>>, <<7, 2>>}

\* some internal edge of t appears in u the other way round: the tips below
\* it in t are the tips not below it in u
SomeEdgeReversed(t, u) ==
  \E i \in DOMAIN t.edge : \E j \in DOMAIN u.edge :
    /\ t.edge[i][2] > NTip(t) /\ u.edge[j][2] > NTip(u)
    /\ TipsBelow(u, u.edge[j][2]) = Range(t.tipLabel) \ TipsBelow(t, t.edge[i][2])

\* what C11 says of every rooting on one tip: the tip hangs off the root n+1,
\* the bipartitions are those of the input, and with resolveRoot off the
\* root's clades are those around the tip's former parent
TipParentIsRoot ==
  LET tip == args[1].outgroup[1]
      p == pre.edge[EdgeInto(pre, tip)][1]
  IN /\ out = "tree"
     /\ TreeInvariants(tree)
     /\ tree.tipLabel = pre.tipLabel
     /\ tree.edge[EdgeInto(tree, tip)][1] = NTip(tree) + 1
     /\ Splits(tree) = Splits(pre)
     /\ ~args[1].resolveRoot =>
          {TipsBelow(tree, c) : c \in ChildSet(tree, NTip(tree) + 1)} \ {{}}
            = CladesAround(pre, p) \ {{}}

\* C11: rootPhylo with a single-tip outgroup returns a tree whose root n+1 is
\* the former parent of that tip, the edges of the path from that node up to
\* the old root turned round; the caterpillar (((A,B),C),D) rooted at D is
\* rooted and has the edges of its A-B-C path reversed.
C11_RootAtTipReversesPath ==
  RootedAtTip =>
    /\ TipParentIsRoot
    /\ (Caterpillar(pre) /\ args[1].outgroup = <<4>>)
         => (isRooted(tree, NTip(tree)) /\ SomeEdgeReversed(pre, tree))

\* the labels the last dropTip call was given, as a list
GivenLabels == IF args[3] = "string" THEN <<args[1]>> ELSE args[1]

\* the last call was dropTip on a valid tree with labels of which at least
\* one is not a tip label of the tree
UnknownLabelDropped ==
  /\ op = "dropTip" /\ Len(args) = 3 /\ ValidTree(pre)
  /\ \E k \in DOMAIN GivenLabels : GivenLabels[k] \notin Range(pre.tipLabel)

\* C12: dropTip called with a tip label (a string or a list of
\* strings) that does not occur in tipLabel fails with a LookupError and
\* returns no tree.
C12_UnknownLabelLookupError ==
  UnknownLabelDropped => out = "LookupError"

\* the last call was dropTip on a valid tree with every tip named once, by
\* number or by label, and trimInternal on or fewer than three internal nodes
EveryTipDropped ==
  /\ op = "dropTip" /\ ValidTree(pre)
  /\ IF Len(args) = 2
     THEN Len(args[1]) = NTip(pre) /\ Range(args[1]) = 1..NTip(pre)
     ELSE Len(GivenLabels) = NTip(pre) /\ Range(GivenLabels) = Range(pre.tipLabel)
  /\ (args[2].trimInternal \/ pre.Nnode < 3)

\* C13: dropTip given every tip of the tree returns the empty sentinel (null)
\* whenever trimInternal is true or Nnode < 3, and leaves the input tree's
\* edges, lengths, labels and Nnode as they were.
C13_AllTipsGiveNull ==
  EveryTipDropped =>
    /\ out = "null"
    /\ tree.edge = pre.edge /\ tree.el = pre.el /\ tree.wbl = pre.wbl
    /\ tree.tipLabel = pre.tipLabel /\ tree.nodeLabel = pre.nodeLabel
    /\ tree.Nnode = pre.Nnode

\* C13's case: all four tips of a tree with two internal nodes dropped with
\* trimInternal off
C13_Witness ==
  /\ EveryTipDropped /\ ~args[2].trimInternal
  /\ NTip(pre) = 4 /\ pre.Nnode = 2 /\ out = "null"

\* C14: for a tree with fewer than two tips (the one-tip tree dropTip returns
\* included), reorder, collapseSingles, rootPhylo and unrootPhylo each return
\* the tree unchanged and raise no error.
C14_TinyTreesPassThrough ==
  (/\ op \in {"reorder", "collapseSingles", "rootPhylo", "unrootPhylo"}
   /\ ValidTree(pre) /\ NTip(pre) < 2)
    => (out = "tree" /\ tree = pre)

\* the last call ended with an error
EndedWithError == out \notin {"tree", "null", "registry", "unmodelled"}

\* t is as u was: invariants, edges with their lengths, Nnode, labels, root edge
LeftAsItWas(t, u) ==
  /\ TreeInvariants(t)
  /\ Len(t.edge) = Len(u.edge) /\ EdgeTriples(t) = EdgeTriples(u)
  /\ t.Nnode = u.Nnode /\ t.tipLabel = u.tipLabel
  /\ t.wnl = u.wnl /\ t.nodeLabel = u.nodeLabel /\ t.rootEdge = u.rootEdge

\* C15: whenever dropTip, rootPhylo or unrootPhylo ends with an error, the
\* input tree afterwards still satisfies the tree invariants and has the edges,
\* lengths, Nnode, tipLabel, nodeLabel and rootEdge it had before the call.
C15_ErrorsLeaveInputIntact ==
  (/\ op \in {"dropTip", "rootPhylo", "unrootPhylo"}
   /\ ValidTree(pre) /\ EndedWithError)
    => LeftAsItWas(tree, pre)

\* what C16 says unrootPhylo does with tree t before it changes anything
Classified(t) ==
  IF Len(t.edge) < 3 THEN out = "DegenerateTreeError"
  ELSE IF \A v \in 1..(NTip(t) + t.Nnode) : Degree(t, v) < 3
  THEN out = "ConstantDegreeError"
  ELSE (t.rootEdge = Null /\ ~isRooted(t, NTip(t))) => (out = "tree" /\ tree = t)

\* C16: unrootPhylo classifies its input before changing topology: fewer than
\* three edges gives DegenerateTreeError; otherwise no node of degree three or
\* more gives ConstantDegreeError; otherwise a tree that is not rooted (no
\* rootEdge, more than two edges out of the root) is returned unchanged. With
\* collapseSinglesFlag on, the trees looked at have no single-child node.
C16_UnrootClassifies ==
  (/\ op = "unrootPhylo" /\ ValidTree(pre)
   /\ args[1] => NoSingles(pre))
    => Classified(pre)

\* the last call was the first of the run: rootPhylo on a valid tree with an
\* outgroup of two tips or more, not all of them, no node, resolveRoot off
RootedAtClade ==
  /\ FirstCall("rootPhylo") /\ ValidTree(pre)
  /\ args[1].node = Null /\ ~args[1].resolveRoot
  /\ Len(args[1].outgroup) \in 2..(NTip(pre) - 1)

\* C17: rootPhylo with an outgroup of 2..n-1 tips (no node, resolveRoot off)
\* raises MonophylyError exactly when neither the outgroup nor its complement
\* is the tip set of a non-root internal node; otherwise it returns a valid
\* tree in which the complement of the outgroup is the tip set of one child
\* of the root.
C17_MonophylyOrRerooted ==
  RootedAtClade =>
    LET n == NTip(pre)
        all == Range(pre.tipLabel)
        og == {pre.tipLabel[args[1].outgroup[k]] : k \in DOMAIN args[1].outgroup}
        clades == {TipsBelow(pre, v) : v \in (n + 2)..(n + pre.Nnode)}
    IN IF og \notin clades /\ (all \ og) \notin clades
       THEN out = "MonophylyError"
       ELSE /\ out = "tree"
            /\ TreeInvariants(tree)
            /\ \E c \in ChildSet(tree, NTip(tree) + 1) : TipsBelow(tree, c) = all \ og

\* the positions of the edges of t below node v: those whose parent is v or a
\* descendant of v
EdgesBelow(t, v) ==
  {j \in DOMAIN t.edge : t.edge[j][1] \in ReachFrom(t, {v}, Len(t.edge))}

\* the edge list of t is in cladewise order: the edges below a node follow
\* the edge into it in one block
Cladewise(t) ==
  \A i \in DOMAIN t.edge :
    EdgesBelow(t, t.edge[i][2])
      = (i + 1)..(i + Cardinality(EdgesBelow(t, t.edge[i][2])))

\* the root of t is n+1 and never a child, the internal nodes are exactly
\* n+1..n+Nnode
RootFirstNumbered(t) ==
  /\ ~HasUndefRow(t)
  /\ \A i \in DOMAIN t.edge : t.edge[i][2] # NTip(t) + 1
  /\ \A v \in (NTip(t) + 2)..(NTip(t) + t.Nnode) : \E i \in DOMAIN t.edge : t.edge[i][2] = v
  /\ {t.edge[i][1] : i \in DOMAIN t.edge} = (NTip(t) + 1)..(NTip(t) + t.Nnode)

\* the last call was rootPhylo on a valid tree and returned a tree
RootReturned == op = "rootPhylo" /\ ValidTree(pre) /\ out = "tree"

\* C18: every rootPhylo call that returns a tree returns it with the
\* root numbered n+1 (the only node that is never a child), the internal nodes
\* numbered exactly n+1..n+Nnode, the order tag cladewise and the edge list in
\* cladewise order.
C18_RootedIsCladewiseTagged ==
  RootReturned =>
    /\ RootFirstNumbered(tree)
    /\ tree.order = "cladewise"
    /\ Cladewise(tree)

\* the length of the path between tips a and b of t: the lengths of the edges
\* that have exactly one of the two below them, summed
PathLength(t, a, b) ==
  SumSeq([i \in DOMAIN t.edge |->
            IF (a \in ReachFrom(t, {t.edge[i][2]}, Len(t.edge)))
                 # (b \in ReachFrom(t, {t.edge[i][2]}, Len(t.edge)))
            THEN t.el[i] ELSE 0])

\* the last call was the first of the run: unrootPhylo with both flags off on
\* a valid tree with lengths, three tips or more, no single-child node and
\* exactly two edges out of the root
UnrootedAtFork ==
  /\ FirstCall("unrootPhylo") /\ args = <<FALSE, FALSE>>
  /\ ValidTree(pre) /\ pre.wbl /\ NTip(pre) >= 3 /\ NoSingles(pre)
  /\ Cardinality(ChildSet(pre, NTip(pre) + 1)) = 2

\* C19: for a rooted tree with integer edge lengths whose root has exactly two
\* children, unrootPhylo (keepRootEdge off) removes one root edge and adds its
\* length to the other, every other edge keeping its length, so that the path
\* length between every two tips is what it was; whichever of the two root
\* edges comes first in the edge list.
C19_UnrootKeepsPathLengths ==
  UnrootedAtFork =>
    /\ out = "tree"
    /\ ~HasUndefRow(tree)
    /\ Len(tree.edge) = Len(pre.edge) - 1 /\ Len(tree.el) = Len(tree.edge)
    /\ tree.tipLabel = pre.tipLabel
    /\ \A i \in DOMAIN pre.edge :
         pre.edge[i][1] # NTip(pre) + 1 =>
           \E j \in DOMAIN tree.edge :
             /\ TipsBelow(tree, tree.edge[j][2]) = TipsBelow(pre, pre.edge[i][2])
             /\ tree.el[j] = pre.el[i]
    /\ \A a \in 1..NTip(pre) : \A b \in 1..NTip(pre) :
         PathLength(tree, a, b) = PathLength(pre, a, b)

\* C20: in the edge list reorder(T, postorder) produces, for every internal
\* non-root node v the edges of v's subtree form one block that ends just
\* before the edge whose child is v; so every edge whose parent is v comes
\* before the edge whose child is v.
C20_PostorderBlocks ==
  (FirstCall("reorder") /\ args = <<"postorder">> /\ ValidTree(pre))
    => /\ out = "tree"
       /\ ~HasUndefRow(tree)
       /\ \A i \in DOMAIN tree.edge :
            EdgesBelow(tree, tree.edge[i][2])
              = (i - Cardinality(EdgesBelow(tree, tree.edge[i][2])))..(i - 1)

\* the last call was the first of the run: reorder(T, cladewise) on a valid
\* tree
ReorderedCladewise ==
  FirstCall("reorder") /\ args = <<"cladewise">> /\ ValidTree(pre)

\* C21: in the edge list reorder(T, cladewise) produces, the first edge has
\* the root as parent, every edge into an internal node v is followed at once
\* by all the edges of v's subtree, and the children of each node stand in
\* their original relative order.
C21_CladewiseBlocks ==
  ReorderedCladewise =>
    /\ out = "tree"
    /\ ~HasUndefRow(tree)
    /\ Len(tree.edge) = Len(pre.edge)
    /\ EdgeTriples(tree) = EdgeTriples(pre)
    /\ tree.edge[1][1] = NTip(tree) + 1
    /\ Cladewise(tree)
    /\ SiblingOrderKept(pre, tree)

\* C21's case: a four-tip tree with three internal nodes whose edge list was
\* not in cladewise order and was rearranged
C21_Witness ==
  /\ ReorderedCladewise /\ NTip(pre) = 4 /\ pre.Nnode = 3
  /\ ~Cladewise(pre) /\ out = "tree" /\ tree.edge # pre.edge
  /\ tree.order = "cladewise"

\* the numbers of the tips at or below node v of t
TipIdsBelow(t, v) == ReachFrom(t, {v}, Len(t.edge)) \cap (1..NTip(t))

\* C22: for a single valid tree with n tips and Nnode internal nodes, in any
\* edge order, propPart ends without error and returns exactly Nnode
\* partitions, partitions[i] being the ascending list of the tips below node
\* n+1+i, and partitions[0] all the tips 1..n.
C22_PartitionsPerNode ==
  (op = "propPart" /\ args[1] = 1 /\ ValidTree(pre))
    => /\ out = "registry"
       /\ Len(aux.partitions) = pre.Nnode
       /\ \A i \in DOMAIN aux.partitions :
            aux.partitions[i] = SeqOfSet(TipIdsBelow(pre, NTip(pre) + i))
       /\ aux.partitions[1] = [k \in 1..NTip(pre) |-> k]

\* the last call was dropTip with trimInternal on, subtree off and rooted left
\* out, on a valid tree and a list of distinct tip numbers that leaves two
\* tips or more: the call reaches the trimInternal loop
CascadeRun ==
  /\ op = "dropTip" /\ Len(args) = 2 /\ ValidTree(pre)
  /\ args[2].trimInternal /\ ~args[2].subtree /\ args[2].rooted = "default"
  /\ args[1] # <<>> /\ Cardinality(Range(args[1])) = Len(args[1])
  /\ Cardinality(Survivors(pre, args[1])) >= 2

\* the tree the loop works on: the input in cladewise order
CascadeTree == reorder(pre, "cladewise").tree

\* the edges kept when the loop starts: all but those into the dropped tips
CascadeStart ==
  {i \in DOMAIN CascadeTree.edge : CascadeTree.edge[i][2] \notin Range(args[1])}

\* the edges kept when the loop ends
CascadeEnd == TrimLoop(E1(CascadeTree), E2(CascadeTree), NTip(pre), CascadeStart)

\* C23: the trimInternal cascade of dropTip terminates for every valid tree
\* and set of dropped tips, and when it ends an edge is kept if and only if
\* its child is a surviving tip or an internal node with a surviving tip
\* among its descendants; the tips of the returned tree are the survivors.
C23_CascadeKeepsLiveEdges ==
  CascadeRun =>
    /\ CascadeEnd
         = {i \in DOMAIN CascadeTree.edge :
              TipIdsBelow(CascadeTree, CascadeTree.edge[i][2])
                \cap Survivors(pre, args[1]) # {}}
    /\ out = "tree" => NTip(tree) = Cardinality(Survivors(pre, args[1]))

\* C23's case: the cascade needed a second pass, an internal edge going only
\* after the edge below it went
C23_Witness ==
  /\ CascadeRun /\ out = "tree"
  /\ CascadeEnd # TrimOnce(E1(CascadeTree), E2(CascadeTree), NTip(pre), CascadeStart)

\* the last call was dropTip with subtree on (the other options at their
\* defaults) on a valid tree and a non-empty list of distinct tip numbers that
\* leaves two tips or more
SubtreeDrop ==
  /\ op = "dropTip" /\ Len(args) = 2 /\ ValidTree(pre)
  /\ args[2] = [DropDefaults EXCEPT !.subtree = TRUE]
  /\ args[1] # <<>> /\ Cardinality(Range(args[1])) = Len(args[1])
  /\ Cardinality(Survivors(pre, args[1])) >= 2

\* the nodes of t that stand for what was removed: a node whose tips are all
\* in gone while its parent has a tip that is not
RemovedUnits(t, gone) ==
  {v \in (1..(NTip(t) + t.Nnode)) \ {NTip(t) + 1} :
     /\ TipIdsBelow(t, v) \subseteq gone
     /\ ~(TipIdsBelow(t, t.edge[EdgeInto(t, v)][1]) \subseteq gone)}

\* the label C24 gives the tip that stands for unit v
UnitLabel(t, v) ==
  IF v <= NTip(t) THEN "[1_tip]"
  ELSE IF t.wnl THEN t.nodeLabel[v - NTip(t)]
  ELSE TipsLabel(Cardinality(TipIdsBelow(t, v)))

\* C24: dropTip with subtree on ends without error and returns a valid tree
\* in which each fully removed clade is one tip labelled with the number of
\* tips it stands for (or the clade's node label), and each dropped tip whose
\* siblings survive is kept as a tip labelled "[1_tip]".
C24_SubtreeKeepsStubs ==
  SubtreeDrop =>
    /\ out = "tree"
    /\ TreeInvariants(tree)
    /\ NTip(tree) = Cardinality(Survivors(pre, args[1]))
                      + Cardinality(RemovedUnits(pre, Range(args[1])))
    /\ Range(tree.tipLabel)
         = {pre.tipLabel[x] : x \in Survivors(pre, args[1])}
             \cup {UnitLabel(pre, v) : v \in RemovedUnits(pre, Range(args[1]))}

\* the last call was the first of the run: rootPhylo(T, [tip], null, true) on
\* a valid tree without single-child nodes, the tip's parent having more than
\* two clades around it, so that the root needs resolving
RootResolved ==
  /\ RootedAtTip /\ args[1].resolveRoot /\ NoSingles(pre)
  /\ Cardinality(CladesAround(pre, pre.edge[EdgeInto(pre, args[1].outgroup[1])][1])) > 2

\* what the same call gives with resolveRoot off
Unresolved == rootPhylo(pre, args[1].outgroup, Null, FALSE, FALSE)

\* C25: rootPhylo with resolveRoot on, when the rerooted root would have more
\* than two children, ends without error and returns a valid tree whose root
\* has exactly two children: the outgroup, and one new internal node on an
\* edge of length 0 that takes the other former root edges; edge count and
\* Nnode are one more than without resolveRoot.
C25_ResolvedRootIsBinary ==
  RootResolved =>
    /\ out = "tree"
    /\ TreeInvariants(tree)
    /\ Cardinality(ChildSet(tree, NTip(tree) + 1)) = 2
    /\ \E i \in DOMAIN tree.edge : \E j \in DOMAIN tree.edge :
         /\ tree.edge[i] = <<NTip(tree) + 1, args[1].outgroup[1]>>
         /\ tree.edge[j][1] = NTip(tree) + 1 /\ tree.edge[j][2] > NTip(tree)
         /\ tree.wbl => tree.el[j] = 0
         /\ TipsBelow(tree, tree.edge[j][2])
              = Range(pre.tipLabel) \ {pre.tipLabel[args[1].outgroup[1]]}
    /\ Len(tree.edge) = Len(Unresolved.tree.edge) + 1
    /\ tree.Nnode = Unresolved.tree.Nnode + 1
    /\ Splits(tree) = Splits(pre)

\* the last call was collapseSingles on a valid tree with edge lengths that
\* has a single-child internal node
CollapsedSingles ==
  op = "collapseSingles" /\ ValidTree(pre) /\ pre.wbl /\ ~NoSingles(pre)

\* the tip sets of two tips or more below the nodes of t
BigClades(t) ==
  {c \in {TipsBelow(t, v) : v \in 1..(NTip(t) + t.Nnode)} : Cardinality(c) >= 2}

\* the summed length of the basal chain of t: the edges into the internal
\* nodes that have every tip below them
BasalLength(t) ==
  SumSeq([i \in DOMAIN t.edge |->
            IF t.edge[i][2] > NTip(t)
               /\ TipsBelow(t, t.edge[i][2]) = Range(t.tipLabel)
            THEN t.el[i] ELSE 0])

\* C26: on a tree with integer edge lengths and single-child internal nodes
\* collapseSingles keeps the tips and every clade of two tips or more, leaves
\* no single-child node, and merges the edges around each such node into one
\* edge of summed length, so that the path length between any two tips is
\* unchanged; with the root-length flag on, the returned rootEdge is the
\* summed length of the stripped basal chain.
C26_CollapseKeepsPathLengths ==
  CollapsedSingles =>
    /\ out = "tree"
    /\ TreeInvariants(tree)
    /\ tree.tipLabel = pre.tipLabel
    /\ BigClades(tree) = BigClades(pre)
    /\ NoSingles(tree)
    /\ \A a \in 1..NTip(pre) : \A b \in 1..NTip(pre) :
         PathLength(tree, a, b) = PathLength(pre, a, b)
    /\ args[1] => tree.rootEdge = BasalLength(pre)

\* the last call was nodeDepthEdgeLength on a valid tree whose edge list is in
\* cladewise order, the depths starting at 0
DepthOfCladewise ==
  op = "nodeDepthEdgeLength" /\ ValidTree(pre) /\ Cladewise(pre)

\* C27: on a tree in cladewise order, the root's depth starting at 0, the
\* depths nodeDepthEdgeLength computes satisfy depth[child] = depth[parent] +
\* length on every edge.
C27_DepthAddsAlongEdges ==
  DepthOfCladewise =>
    \A i \in DOMAIN pre.edge :
      aux[pre.edge[i][2]] = aux[pre.edge[i][1]] + pre.el[i]

\* the edge list of t is in postorder: the edges below a node stand in one
\* block that ends just before the edge into it
Postorder(t) ==
  \A i \in DOMAIN t.edge :
    EdgesBelow(t, t.edge[i][2])
      = (i - Cardinality(EdgesBelow(t, t.edge[i][2])))..(i - 1)

\* the order tag of t tells the truth about its edge list
OrderTagTrue(t) ==
  /\ t.order = "cladewise" => (~HasUndefRow(t) /\ Cladewise(t))
  /\ t.order = "postorder" => (~HasUndefRow(t) /\ Postorder(t))

\* C28: in every state reached from a valid tree by reorder, dropTip,
\* collapseSingles, rootPhylo, unrootPhylo and propPart in any order, a tree
\* tagged cladewise has its edge list in cladewise order and a tree tagged
\* postorder has it in postorder.
C28_OrderTagIsTrue ==
  (ValidTree(orig) /\ out = "tree") => OrderTagTrue(tree)

\* the last call was dropTip on a valid tree with a list of tip numbers that
\* names a tip twice
DroppedTwice ==
  /\ op = "dropTip" /\ Len(args) = 2 /\ ValidTree(pre)
  /\ Len(args[1]) > Cardinality(Range(args[1]))

\* what the same call gives for the list without its repetitions
DroppedOnce ==
  dropTip(pre, SeqOfSet(Range(args[1])), args[2].trimInternal, args[2].subtree,
          args[2].rootEdge, args[2].rooted, args[2].collapseSinglesFlag)

\* C29: dropTip treats its tip argument as a set: a list that repeats a tip
\* gives the result of the list without repetitions, and the all-tips and
\* all-but-one cases are taken by the number of distinct tips, so that no tip
\* is removed that was not named.
C29_DropTipIsSetwise ==
  DroppedTwice =>
    /\ out = DroppedOnce.out
    /\ out = "tree" => (/\ SameTree(tree, DroppedOnce.tree)
                        /\ Range(pre.tipLabel) \ Range(tree.tipLabel)
                             \subseteq {pre.tipLabel[x] : x \in Range(args[1])})

\* the last call was collapseSingles on a valid tree with node labels that
\* has a single-child internal node, so that the slow path is taken
CollapsedLabelled ==
  op = "collapseSingles" /\ ValidTree(pre) /\ pre.wnl /\ ~NoSingles(pre)

\* the internal nodes of t that have two children or more
Forks(t) ==
  {v \in (NTip(t) + 1)..(NTip(t) + t.Nnode) :
     Cardinality(ChildSet(t, v)) >= 2}

\* C30: after the slow path of collapseSingles on a tree with node labels,
\* nodeLabel has Nnode entries and its entry for the node now numbered n+1+i
\* is the label the surviving node with the same tips carried in the input,
\* the first entry being the new root's.
C30_CollapseKeepsNodeLabels ==
  CollapsedLabelled =>
    /\ out = "tree"
    /\ Len(tree.nodeLabel) = tree.Nnode
    /\ \A i \in 1..tree.Nnode :
         \E v \in Forks(pre) :
           /\ TipsBelow(pre, v) = TipsBelow(tree, NTip(tree) + i)
           /\ tree.nodeLabel[i] = pre.nodeLabel[v - NTip(pre)]

====
